---- MODULE Spec2Model ----
(***************************************************************************)
(* ctxhelpr: the per-repository index (SQLite rows), the indexer pipeline  *)
(* (index / update_files), the indexing tracker, the MCP tool handlers and *)
(* the filesystem watcher, as state machines.                              *)
(*                                                                         *)
(* Strings that the code inspects character by character (relative paths,  *)
(* ignore patterns, file extensions) are sequences of one-character         *)
(* strings, so that ends_with / starts_with / contains are computed.        *)
(***************************************************************************)
EXTENDS Integers, Sequences, FiniteSets, TLC

VARIABLES
    disk,       \* working tree of the repository: rel_path -> file state (0 = no file)
    db,         \* the index DB files of the cache directory: path string -> DB
    cfg,        \* the repository's merged config: [ignore, max_file_size]
    lastOp,     \* the last operation and what it returned
    nOps,       \* number of operations so far
    tracker,    \* IndexingTracker: entries (path -> channel) and the watch channels
    bg,         \* the background auto-index tasks spawned by trigger_background_index
    ir,         \* the index_repository calls in progress
    dbLock,     \* the runner holding the DB's write transaction
    resp,       \* the last response of a tool call
    watching,   \* the paths the watcher has been told to watch
    fsq,        \* the watcher's channel of filesystem events
    debouncer,  \* the event loop's Debouncer
    clock,      \* the time
    workers,    \* the flush workers spawned and not yet run
    watchers,   \* the event loop's map of watched repositories (its keys)
    conn,       \* the storage connection of a run in progress and its transaction
    boot,       \* the startup of the server: the known repositories and its position
    dlog,       \* the Debouncer's calls: records since the last flush, the last batch
    loop,       \* the watcher's event loop: its command channel, its OS watchers
    canon       \* the file system's canonical form of each path string

idxVars == <<lastOp, nOps>>
envVars == <<loop, canon>>
auxVars == <<conn, boot, dlog, loop, canon>>
srvVars == <<tracker, bg, ir, dbLock, resp, watching>>
wVars == <<fsq, debouncer, clock, workers, watchers>>
vars == <<disk, db, cfg, lastOp, nOps, tracker, bg, ir, dbLock, resp, watching,
          fsq, debouncer, clock, workers, watchers, conn, boot, dlog,
          loop, canon>>

(***************************************************************************)
(* Bounds of the model.                                                    *)
(***************************************************************************)
NumContents == 5
MaxRowId == 6
MaxOps == 4
NumTasks == 2
NumCalls == 2
MaxQueue == 2
MaxWorkers == 2
MaxClock == 4

\* SQL NULL / Rust None: of a text column, of a row id (row ids start at 1), of
\* a file extension, and of an entry of the existing-file map.
NULL == "NULL"
NullId == 0
NoExt == <<"<none>">>
NoEntry == [rel_path |-> <<>>, id |-> 0, content_hash |-> <<>>]

(***************************************************************************)
(* Character-level string helpers (Rust str::starts_with, ends_with,       *)
(* contains, Path::file_name, Path::extension).                            *)
(***************************************************************************)
StartsWith(s, p) ==
    /\ Len(p) <= Len(s)
    /\ SubSeq(s, 1, Len(p)) = p

EndsWith(s, p) ==
    /\ Len(p) <= Len(s)
    /\ SubSeq(s, Len(s) - Len(p) + 1, Len(s)) = p

Contains(s, p) ==
    \E i \in 1..(Len(s) + 1) :
        /\ i + Len(p) - 1 <= Len(s)
        /\ SubSeq(s, i, i + Len(p) - 1) = p

\* Positions of ch in s.
Positions(s, ch) == { i \in 1..Len(s) : s[i] = ch }

SetMax(S) == CHOOSE x \in S : \A y \in S : y <= x
SetMin(S) == CHOOSE x \in S : \A y \in S : x <= y

\* Path::file_name: the text after the last '/'.
FileNameOf(p) ==
    LET sl == Positions(p, "/")
    IN  IF sl = {} THEN p ELSE SubSeq(p, SetMax(sl) + 1, Len(p))

\* Path::extension: the text after the last '.' of the file name; none when the
\* name holds no '.', or only a leading one.
ExtensionOf(p) ==
    LET name == FileNameOf(p)
        dots == Positions(name, ".")
    IN  IF dots = {} \/ SetMax(dots) = 1 THEN NoExt
        ELSE SubSeq(name, SetMax(dots) + 1, Len(name))

\* The directory components of a relative path (every component but the last).
RECURSIVE SplitPath(_)
SplitPath(p) ==
    LET sl == Positions(p, "/")
    IN  IF sl = {} THEN <<p>>
        ELSE <<SubSeq(p, 1, SetMin(sl) - 1)>> \o SplitPath(SubSeq(p, SetMin(sl) + 1, Len(p)))

DirComponents(p) ==
    LET parts == SplitPath(p)
    IN  { parts[i] : i \in 1..(Len(parts) - 1) }

(***************************************************************************)
(* The files of the modelled working tree and the paths of the repository. *)
(***************************************************************************)
F_a == <<"a", ".", "t", "s">>
F_g == <<"g", "/", "b", ".", "m", "d">>
F_d == <<"d", "i", "s", "t", "/", "x", ".", "t", "s">>

RelPaths == {F_a, F_g, F_d}

\* The order in which WalkDir yields the entries of the tree.
WalkOrder == <<F_a, F_d, F_g>>

RepoPath == "/repo"
Paths == {RepoPath}

\* std::fs::canonicalize: the canonical form the file system gives the path
\* string (the string itself unless the run starts from a path that is not
\* in canonical form).
Canonicalize(p) == canon[p]

(***************************************************************************)
(* File states.  0: no file.  1: a file that cannot be read.  2: bytes the  *)
(* parser rejects.  3: bytes of size 2.  4 and up: distinct bytes of size 1.*)
(***************************************************************************)
Absent == 0
Contents == 1..NumContents

Readable(c) == c # 1
Parses(c) == c # 2
SizeOf(c) == IF c = 3 THEN 2 ELSE 1

\* hasher::hash_bytes: hex SHA-256 of the bytes (distinct bytes, distinct digests).
hash_bytes(c) == <<"sha256", c>>

Sym(n, k, ch, rf) == [name |-> n, kind |-> k, children |-> ch, references |-> rf]
Ref(n, k, l) == [name |-> n, kind |-> k, line |-> l]

\* Symbol and reference names are the identifier's text, character by character.
N_big == <<"b", "i", "g">>
N_f == <<"f">>
N_g == <<"g">>
N_h == <<"h">>
N_C == <<"C">>
N_this_g == <<"t", "h", "i", "s", ".", "g">>
N_this_g_f == <<"t", "h", "i", "s", ".", "g", ".", "f">>

\* LanguageExtractor::extract on the bytes of a file state: a constant, a
\* function f that calls g, or a class C whose method g calls f and whose
\* method h calls this.g and this.g.f.
Extract(c) ==
    IF c = 3 THEN << Sym(N_big, "const", <<>>, <<>>) >>
    ELSE IF c % 2 = 0
         THEN << Sym(N_f, "fn", <<>>, << Ref(N_g, "call", 1) >>) >>
         ELSE << Sym(N_C, "class",
                     << Sym(N_g, "method", <<>>, << Ref(N_f, "call", 2) >>),
                        Sym(N_h, "method", <<>>, << Ref(N_this_g, "call", 3),
                                                    Ref(N_this_g_f, "call", 4) >>) >>,
                     <<>>) >>

(***************************************************************************)
(* Indexer filters.                                                        *)
(***************************************************************************)
DEFAULT_IGNORE ==
    { <<"n","o","d","e","_","m","o","d","u","l","e","s">>,
      <<"t","a","r","g","e","t">>,
      <<".","g","i","t">>,
      <<"d","i","s","t">>,
      <<"b","u","i","l","d">>,
      <<"_","_","p","y","c","a","c","h","e","_","_">>,
      <<".","v","e","n","v">>,
      <<"v","e","n","d","o","r">>,
      <<".","n","e","x","t">>,
      <<".","n","u","x","t">>,
      <<"c","o","v","e","r","a","g","e">>,
      <<".","c","a","c","h","e">> }

DEFAULT_IGNORE_SUFFIXES ==
    { <<".","m","i","n",".","j","s">>,
      <<".","m","i","n",".","m","j","s">>,
      <<".","m","i","n",".","c","j","s">>,
      <<".","m","i","n",".","c","s","s">> }

\* is_ignored, as WalkDir's filter_entry applies it to every directory above the
\* file and to the file itself.
is_ignored(rel) ==
    \/ \E d \in DirComponents(rel) : d \in DEFAULT_IGNORE
    \/ \E suf \in DEFAULT_IGNORE_SUFFIXES : EndsWith(FileNameOf(rel), suf)

matches_ignore_pattern(rel, patterns) ==
    \E i \in 1..Len(patterns) :
        LET pattern == patterns[i]
        IN  IF Len(pattern) > 0 /\ pattern[1] = "*"
            THEN EndsWith(rel, SubSeq(pattern, 2, Len(pattern)))
            ELSE IF Len(pattern) > 0 /\ pattern[Len(pattern)] = "/"
                 THEN StartsWith(rel, pattern) \/ Contains(rel, <<"/">> \o pattern)
                 ELSE rel = pattern \/ EndsWith(rel, <<"/">> \o pattern)

\* The extensions the five extractors own.
ExtractorExtensions ==
    { <<"t","s">>, <<"t","s","x">>, <<"j","s">>, <<"j","s","x">>, <<"m","j","s">>,
      <<"c","j","s">>, <<"p","y">>, <<"p","y","i">>, <<"r","s">>, <<"r","b">>,
      <<"m","d">>, <<"m","a","r","k","d","o","w","n">> }

get_extractor(ext) == ext \in ExtractorExtensions

detect_language(ext) ==
    IF ext \in { <<"t","s">>, <<"t","s","x">>, <<"j","s">>, <<"j","s","x">>,
                 <<"m","j","s">>, <<"c","j","s">> } THEN "typescript"
    ELSE IF ext \in { <<"p","y">>, <<"p","y","i">> } THEN "python"
    ELSE IF ext = <<"r","s">> THEN "rust"
    ELSE NULL

(***************************************************************************)
(* Storage: one SQLite DB per path string.  Rows are records; a table is a  *)
(* set of rows.  A new row gets rowid max + 1.                              *)
(***************************************************************************)
EmptyDb == [exists |-> FALSE, repos |-> {}, files |-> {}, symbols |-> {}, refs |-> {}]

RowIds(rows) == { r.id : r \in rows }
NextRowId(rows) == IF rows = {} THEN 1 ELSE SetMax(RowIds(rows)) + 1

\* SqliteStorage::open: creates the DB file when missing and applies the schema.
open(d) == [d EXCEPT !.exists = TRUE]

\* storage::has_index_db: whether the DB file of the path exists.
has_index_db(d) == d.exists

\* SqliteStorage::is_repo_indexed: a repository row of that path with a
\* non-null last_indexed_at.
is_repo_indexed(d, path) ==
    \E r \in d.repos : r.abs_path = path /\ r.last_indexed_at # NULL

ensure_repo(d, abs_path) ==
    IF \E r \in d.repos : r.abs_path = abs_path
    THEN d
    ELSE [d EXCEPT !.repos = @ \cup { [id |-> NextRowId(d.repos),
                                       abs_path |-> abs_path,
                                       last_indexed_at |-> NULL] }]

RepoIdOf(d, abs_path) == (CHOOSE r \in d.repos : r.abs_path = abs_path).id

update_repo_timestamp(d, repo_id) ==
    [d EXCEPT !.repos = { IF r.id = repo_id
                          THEN [r EXCEPT !.last_indexed_at = "now"]
                          ELSE r : r \in @ }]

get_files(d, repo_id) == { f \in d.files : f.repo_id = repo_id }

upsert_file(d, repo_id, rel_path, content_hash, language) ==
    IF \E f \in d.files : f.repo_id = repo_id /\ f.rel_path = rel_path
    THEN [d EXCEPT !.files =
            { IF f.repo_id = repo_id /\ f.rel_path = rel_path
              THEN [f EXCEPT !.content_hash = content_hash, !.language = language]
              ELSE f : f \in @ }]
    ELSE [d EXCEPT !.files = @ \cup { [id |-> NextRowId(d.files),
                                       repo_id |-> repo_id,
                                       rel_path |-> rel_path,
                                       content_hash |-> content_hash,
                                       language |-> language] }]

FileIdOf(d, repo_id, rel_path) ==
    (CHOOSE f \in d.files : f.repo_id = repo_id /\ f.rel_path = rel_path).id

\* The schema's cascade when symbol rows go: their outgoing references go with
\* them, and a reference that pointed to one of them is unresolved again.
CascadeSymbols(d, gone) ==
    [d EXCEPT !.symbols = { s \in @ : s.id \notin gone },
              !.refs = { IF r.to_symbol_id \in gone
                         THEN [r EXCEPT !.to_symbol_id = NullId]
                         ELSE r : r \in { q \in @ : q.from_symbol_id \notin gone } }]

clear_file_symbols(d, file_id) ==
    CascadeSymbols(d, { s.id : s \in { t \in d.symbols : t.file_id = file_id } })

\* delete_file that leaves the symbols of the file behind (a mutant).
delete_file_row_only(d, file_id) ==
    [d EXCEPT !.files = { f \in @ : f.id # file_id }]

delete_file(d, file_id) ==
    LET d1 == [d EXCEPT !.files = { f \in @ : f.id # file_id }]
    IN  CascadeSymbols(d1, { s.id : s \in { t \in d.symbols : t.file_id = file_id } })

insert_symbol(d, file_id, repo_id, file_rel_path, sym, parent_id) ==
    [d EXCEPT !.symbols = @ \cup { [id |-> NextRowId(d.symbols),
                                     file_id |-> file_id,
                                     repo_id |-> repo_id,
                                     file_rel_path |-> file_rel_path,
                                     name |-> sym.name,
                                     kind |-> sym.kind,
                                     parent_symbol_id |-> parent_id] }]

\* INSERT OR IGNORE on (from_symbol_id, to_name, ref_kind, line).
insert_ref(d, from_symbol_id, r) ==
    IF \E q \in d.refs : /\ q.from_symbol_id = from_symbol_id
                         /\ q.to_name = r.name
                         /\ q.ref_kind = r.kind
                         /\ q.line = r.line
    THEN d
    ELSE [d EXCEPT !.refs = @ \cup { [from_symbol_id |-> from_symbol_id,
                                      to_name |-> r.name,
                                      ref_kind |-> r.kind,
                                      line |-> r.line,
                                      to_symbol_id |-> NullId] }]

RECURSIVE InsertRefs(_, _, _)
InsertRefs(d, from_symbol_id, rs) ==
    IF rs = <<>> THEN d
    ELSE InsertRefs(insert_ref(d, from_symbol_id, Head(rs)), from_symbol_id, Tail(rs))

RECURSIVE insert_symbol_tree(_, _, _, _, _, _)
RECURSIVE InsertSymbolTrees(_, _, _, _, _, _)
insert_symbol_tree(d, file_id, repo_id, file_rel_path, sym, parent_id) ==
    LET sym_id == NextRowId(d.symbols)
        d1 == insert_symbol(d, file_id, repo_id, file_rel_path, sym, parent_id)
        d2 == InsertRefs(d1, sym_id, sym.references)
    IN  InsertSymbolTrees(d2, file_id, repo_id, file_rel_path, sym.children, sym_id)

\* The loop over a list of symbols that share a parent.
InsertSymbolTrees(d, file_id, repo_id, file_rel_path, syms, parent_id) ==
    IF syms = <<>> THEN d
    ELSE InsertSymbolTrees(
             insert_symbol_tree(d, file_id, repo_id, file_rel_path, Head(syms), parent_id),
             file_id, repo_id, file_rel_path, Tail(syms), parent_id)

\* resolve_references whose subquery leaves out s.name = refs.to_name (a mutant).
resolve_references_any_name(d, repo_id) ==
    LET fromRepo == { s.id : s \in { t \in d.symbols : t.repo_id = repo_id } }
    IN  [d EXCEPT !.refs = { IF r.to_symbol_id = NullId /\ r.from_symbol_id \in fromRepo
                             THEN [r EXCEPT !.to_symbol_id =
                                      IF fromRepo = {} THEN NullId ELSE SetMin(fromRepo)]
                             ELSE r : r \in @ }]

\* UPDATE refs SET to_symbol_id = (SELECT s.id ... WHERE s.name = refs.to_name
\* AND s.repo_id = ?1 LIMIT 1) WHERE to_symbol_id IS NULL AND from_symbol_id IN
\* (symbols of the repo): the first matching row, NULL when there is none.
resolve_references(d, repo_id) ==
    LET fromRepo == { s.id : s \in { t \in d.symbols : t.repo_id = repo_id } }
        target(r) ==
            LET m == { s.id : s \in { t \in d.symbols :
                                        t.name = r.to_name /\ t.repo_id = repo_id } }
            IN  IF m = {} THEN NullId ELSE SetMin(m)
    IN  [d EXCEPT !.refs = { IF r.to_symbol_id = NullId /\ r.from_symbol_id \in fromRepo
                             THEN [r EXCEPT !.to_symbol_id = target(r)]
                             ELSE r : r \in @ }]

\* storage.delete_files_by_rel_paths: the file rows of the repository stored
\* under repo_path whose rel_path is listed go, with their symbols.
delete_files_by_rel_paths(d, repo_path, rel_paths) ==
    LET gone == { f \in d.files :
                    /\ f.rel_path \in rel_paths
                    /\ \E r \in d.repos : r.id = f.repo_id /\ r.abs_path = repo_path }
        d1 == [d EXCEPT !.files = @ \ gone]
    IN  [db |-> CascadeSymbols(d1, { s.id : s \in { t \in d.symbols :
                                                      t.file_id \in RowIds(gone) } }),
         count |-> Cardinality(gone)]

(***************************************************************************)
(* Indexer pipeline.                                                       *)
(***************************************************************************)
RECURSIVE count_symbols(_)
RECURSIVE CountSymbolsOf(_)
count_symbols(sym) == 1 + CountSymbolsOf(sym.children)
CountSymbolsOf(syms) ==
    IF syms = <<>> THEN 0 ELSE count_symbols(Head(syms)) + CountSymbolsOf(Tail(syms))

RECURSIVE count_refs(_)
RECURSIVE CountRefsOf(_)
count_refs(sym) == Len(sym.references) + CountRefsOf(sym.children)
CountRefsOf(syms) ==
    IF syms = <<>> THEN 0 ELSE count_refs(Head(syms)) + CountRefsOf(Tail(syms))

\* build_existing_file_map: rel_path -> (id, content_hash), as a set of entries.
build_existing_file_map(d, repo_id) ==
    { [rel_path |-> f.rel_path, id |-> f.id, content_hash |-> f.content_hash] :
        f \in get_files(d, repo_id) }

\* HashMap::remove / get on the existing-file map: the entry or NULL.
ExistingEntry(map, rel) ==
    IF \E e \in map : e.rel_path = rel
    THEN CHOOSE e \in map : e.rel_path = rel
    ELSE NoEntry

\* process_file without the comparison of the stored hash (a mutant).
process_file_no_hash_check(d, rel_path, c, previous_entry, repo_id) ==
    IF ~Readable(c) \/ ~Parses(c)
    THEN [db |-> d, result |-> "Skipped", symbols |-> 0, refs |-> 0]
    ELSE
        LET symbols == Extract(c)
            lang == detect_language(ExtensionOf(rel_path))
            language == IF lang = NULL THEN "unknown" ELSE lang
            Store(d1, file_id) ==
                InsertSymbolTrees(clear_file_symbols(d1, file_id),
                                  file_id, repo_id, rel_path, symbols, NullId)
            Upserted(d1) == Store(d1, FileIdOf(d1, repo_id, rel_path))
        IN  [db |-> Upserted(upsert_file(d, repo_id, rel_path, hash_bytes(c), language)),
             result |-> IF previous_entry = NoEntry THEN "New" ELSE "Changed",
             symbols |-> CountSymbolsOf(symbols),
             refs |-> CountRefsOf(symbols)]

\* process_file on a file whose state on disk is c.  previous_entry is an entry
\* of the existing-file map or NoEntry.
process_file(d, rel_path, c, previous_entry, repo_id) ==
    IF ~Readable(c)
    THEN [db |-> d, result |-> "Skipped", symbols |-> 0, refs |-> 0]
    ELSE IF previous_entry # NoEntry /\ previous_entry.content_hash = hash_bytes(c)
    THEN [db |-> d, result |-> "Unchanged", symbols |-> 0, refs |-> 0]
    ELSE IF ~Parses(c)
    THEN [db |-> d, result |-> "Skipped", symbols |-> 0, refs |-> 0]
    ELSE
        LET symbols == Extract(c)
            lang == detect_language(ExtensionOf(rel_path))
            language == IF lang = NULL THEN "unknown" ELSE lang
            Store(d1, file_id) ==
                InsertSymbolTrees(clear_file_symbols(d1, file_id),
                                  file_id, repo_id, rel_path, symbols, NullId)
            Upserted(d1) == Store(d1, FileIdOf(d1, repo_id, rel_path))
        IN  [db |-> Upserted(upsert_file(d, repo_id, rel_path, hash_bytes(c), language)),
             result |-> IF previous_entry = NoEntry THEN "New" ELSE "Changed",
             symbols |-> CountSymbolsOf(symbols),
             refs |-> CountRefsOf(symbols)]

\* Whether the walk of index() hands the file to process_file.
WalkAccepts(dsk, rel, ignore_patterns, max_file_size) ==
    /\ dsk[rel] # Absent
    /\ ~is_ignored(rel)
    /\ ExtensionOf(rel) # NoExt
    /\ get_extractor(ExtensionOf(rel))
    /\ SizeOf(dsk[rel]) <= max_file_size
    /\ Len(rel) > 0
    /\ ~matches_ignore_pattern(rel, ignore_patterns)

\* remove_deleted_files: every entry left in the map loses its file row.
RECURSIVE DeleteFileRows(_, _)
DeleteFileRows(d, ids) ==
    IF ids = {} THEN d
    ELSE LET id == SetMin(ids) IN DeleteFileRows(delete_file(d, id), ids \ {id})

\* remove_deleted_files that counts the entries and deletes nothing (a mutant).
remove_deleted_files_count_only(d, remaining) ==
    [db |-> d, count |-> Cardinality(remaining)]

remove_deleted_files(d, remaining) ==
    [db |-> DeleteFileRows(d, { e.id : e \in remaining }),
     count |-> Cardinality(remaining)]

\* The loop of index() over the entries of the walk.  acc carries the storage,
\* the existing-file map and the counters.
RECURSIVE IndexWalk(_, _, _, _, _, _)
IndexWalk(acc, order, dsk, ignore_patterns, max_file_size, repo_id) ==
    IF order = <<>> THEN acc
    ELSE
        LET rel == Head(order)
            next ==
                IF ~WalkAccepts(dsk, rel, ignore_patterns, max_file_size)
                THEN acc
                ELSE
                    LET Count(res) ==
                            [db |-> res.db,
                             existing_map |-> { e \in acc.existing_map : e.rel_path # rel },
                             files_new |->
                                 acc.files_new + (IF res.result = "New" THEN 1 ELSE 0),
                             files_changed |->
                                 acc.files_changed + (IF res.result = "Changed" THEN 1 ELSE 0),
                             files_unchanged |->
                                 acc.files_unchanged
                                     + (IF res.result = "Unchanged" THEN 1 ELSE 0),
                             total_symbols |-> acc.total_symbols + res.symbols,
                             total_refs |-> acc.total_refs + res.refs]
                    IN  Count(process_file(acc.db, rel, dsk[rel],
                                           ExistingEntry(acc.existing_map, rel), repo_id))
        IN  IndexWalk(next, Tail(order), dsk, ignore_patterns, max_file_size, repo_id)

\* index() after begin_transaction: build_existing_file_map and the counters.
IndexAcc(d0, repo_id) ==
    [db |-> d0,
     existing_map |-> build_existing_file_map(d0, repo_id),
     files_new |-> 0, files_changed |-> 0, files_unchanged |-> 0,
     total_symbols |-> 0, total_refs |-> 0]

\* index() after the walk: remove_deleted_files, resolve_references,
\* update_repo_timestamp, commit, and the stats.
IndexFinish(repo_id, walked) ==
    LET Finish(removed) ==
            [db |-> update_repo_timestamp(resolve_references(removed.db, repo_id), repo_id),
             stats |-> [files_total |->
                            walked.files_new + walked.files_changed + walked.files_unchanged,
                        files_new |-> walked.files_new,
                        files_changed |-> walked.files_changed,
                        files_unchanged |-> walked.files_unchanged,
                        files_deleted |-> removed.count,
                        symbols_count |-> walked.total_symbols,
                        refs_count |-> walked.total_refs]]
    IN  Finish(remove_deleted_files(walked.db, walked.existing_map))

\* Indexer::index, from ensure_repo to commit, on storage d.
index(d, repo_path, dsk, ignore_patterns, max_file_size) ==
    LET abs_path == Canonicalize(repo_path)
        \* after begin_transaction
        InTransaction(d0, repo_id) ==
            IndexFinish(repo_id,
                        IndexWalk(IndexAcc(d0, repo_id), WalkOrder, dsk,
                                  ignore_patterns, max_file_size, repo_id))
        \* after ensure_repo
        Ensured(d0) == InTransaction(d0, RepoIdOf(d0, abs_path))
    IN  Ensured(ensure_repo(d, abs_path))

\* The loop of update_files() over the listed paths.
RECURSIVE UpdateLoop(_, _, _, _, _, _)
UpdateLoop(acc, files, dsk, ignore_patterns, max_file_size, repo_id) ==
    IF files = <<>> THEN acc
    ELSE
        LET rel_path == Head(files)
            skip == \/ matches_ignore_pattern(rel_path, ignore_patterns)
                    \/ dsk[rel_path] = Absent
                    \/ SizeOf(dsk[rel_path]) > max_file_size
                    \/ ExtensionOf(rel_path) = NoExt
                    \/ ~get_extractor(ExtensionOf(rel_path))
            next ==
                IF skip THEN acc
                ELSE
                    LET Count(res) ==
                            [db |-> res.db,
                             files_updated |->
                                 acc.files_updated
                                     + (IF res.result \in {"New", "Changed"} THEN 1 ELSE 0),
                             total_symbols |-> acc.total_symbols + res.symbols,
                             total_refs |-> acc.total_refs + res.refs]
                    IN  Count(process_file(acc.db, rel_path, dsk[rel_path], NoEntry, repo_id))
        IN  UpdateLoop(next, Tail(files), dsk, ignore_patterns, max_file_size, repo_id)

\* update_files() after begin_transaction: the counters.
UpdateAcc(d0) == [db |-> d0, files_updated |-> 0, total_symbols |-> 0, total_refs |-> 0]

\* update_files() that also stamps the repository as indexed (a mutant).
UpdateFinish_stamped(repo_id, looped) ==
    [db |-> update_repo_timestamp(resolve_references(looped.db, repo_id), repo_id),
     stats |-> [files_total |-> looped.files_updated,
                files_new |-> 0,
                files_changed |-> looped.files_updated,
                files_unchanged |-> 0,
                files_deleted |-> 0,
                symbols_count |-> looped.total_symbols,
                refs_count |-> looped.total_refs]]

\* update_files() after the loop: resolve_references, commit, and the stats.
UpdateFinish(repo_id, looped) ==
    [db |-> resolve_references(looped.db, repo_id),
     stats |-> [files_total |-> looped.files_updated,
                files_new |-> 0,
                files_changed |-> looped.files_updated,
                files_unchanged |-> 0,
                files_deleted |-> 0,
                symbols_count |-> looped.total_symbols,
                refs_count |-> looped.total_refs]]

\* Indexer::update_files, from ensure_repo to commit, on storage d.
update_files(d, repo_path, files, dsk, ignore_patterns, max_file_size) ==
    LET abs_path == Canonicalize(repo_path)
        \* after begin_transaction
        InTransaction(d0, repo_id) ==
            UpdateFinish(repo_id,
                         UpdateLoop(UpdateAcc(d0), files, dsk,
                                    ignore_patterns, max_file_size, repo_id))
        \* after ensure_repo
        Ensured(d0) == InTransaction(d0, RepoIdOf(d0, abs_path))
    IN  Ensured(ensure_repo(d, abs_path))

NoStats == [files_total |-> 0, files_new |-> 0, files_changed |-> 0, files_unchanged |-> 0,
            files_deleted |-> 0, symbols_count |-> 0, refs_count |-> 0]

(***************************************************************************)
(* Watcher: the debouncer.  Instants are ticks of the model's clock.        *)
(***************************************************************************)
DEBOUNCE_DELAY == 2
NoInstant == -1
NoDuration == -1

\* Debouncer::new
NewDebouncer == [pending |-> {}, last_event_at |-> NoInstant]

\* record that keeps the kind of an entry already pending (a mutant).
record_keeps_first(deb, repo_path, rel_path, kind, now) ==
    [pending |-> IF \E e \in deb.pending : e.repo_path = repo_path /\ e.rel_path = rel_path
                 THEN deb.pending
                 ELSE deb.pending \cup
                        { [repo_path |-> repo_path, rel_path |-> rel_path, kind |-> kind] },
     last_event_at |-> now]

\* Debouncer::record: pending[repo_path][rel_path] = kind, and the timer restarts.
record(deb, repo_path, rel_path, kind, now) ==
    [pending |-> { e \in deb.pending : ~(e.repo_path = repo_path /\ e.rel_path = rel_path) }
                    \cup { [repo_path |-> repo_path, rel_path |-> rel_path, kind |-> kind] },
     last_event_at |-> now]

\* time_until_flush without the clamp at zero (a mutant).
time_until_flush_unclamped(deb, now) ==
    IF deb.last_event_at = NoInstant \/ deb.pending = {}
    THEN NoDuration
    ELSE DEBOUNCE_DELAY - (now - deb.last_event_at)

\* Debouncer::time_until_flush: NoDuration for None.
time_until_flush(deb, now) ==
    IF deb.last_event_at = NoInstant \/ deb.pending = {}
    THEN NoDuration
    ELSE IF now - deb.last_event_at >= DEBOUNCE_DELAY
         THEN 0
         ELSE DEBOUNCE_DELAY - (now - deb.last_event_at)

\* is_ready that is true as soon as something is pending (a mutant).
is_ready_when_pending(deb, now) == deb.pending # {}

is_ready(deb, now) == time_until_flush(deb, now) = 0

\* flush that returns a copy of the pending changes and keeps them (a mutant).
flush_keeps_pending(deb) ==
    [batches |-> deb.pending, debouncer |-> [deb EXCEPT !.last_event_at = NoInstant]]

\* Debouncer::flush: the drained changes and the debouncer after it.
flush(deb) == [batches |-> deb.pending, debouncer |-> NewDebouncer]

\* The filter of the notify callback: built-in ignored directories and
\* suffixes (the repository has no .gitignore).
CallbackAccepts(rel) == ~is_ignored(rel)

\* A list of the paths of S, for update_files.
PathList(S) == SelectSeq(WalkOrder, LAMBDA f : f \in S)

\* The closure a flush hands to spawn_blocking for one repository: open the
\* storage, update_files on the modified paths, then delete_files on the
\* deleted ones.  The result is the storage after it.
FlushWorker(d, w, dsk) ==
    LET Deleted(d1) ==
            IF w.deleted = {} THEN d1
            ELSE delete_files_by_rel_paths(d1, w.repo_path, w.deleted).db
    IN  Deleted(IF w.modified = {} THEN open(d)
                ELSE update_files(open(d), w.repo_path, PathList(w.modified), dsk,
                                  w.ignore, w.max_size).db)

InitWatcher ==
    /\ fsq = <<>>
    /\ debouncer = NewDebouncer
    /\ clock = 0
    /\ workers = <<>>
    /\ watchers = {}

\* No run in progress on a connection.
NoConn == [state |-> "closed", kind |-> "none", files |-> <<>>, todo |-> <<>>,
           acc |-> [db |-> EmptyDb], before |-> EmptyDb]

\* The server is up (the startup is not part of the run).
NoBoot == [pc |-> "serving", known |-> {}, dirs |-> {}, todo |-> <<>>, running |-> {},
           finished |-> {}, served |-> 0]

\* A Debouncer nobody has called yet.
NoLog == [log |-> <<>>, batch |-> {}, batch_log |-> <<>>, last_at |-> NoInstant]

\* The event loop of a watcher that watches nothing and has no command.
NoLoop == [alive |-> TRUE, cmdq |-> <<>>, os |-> {}, created |-> 0, lost |-> 0,
           deleted |-> FALSE]

InitAux ==
    /\ conn = NoConn
    /\ boot = NoBoot
    /\ dlog = NoLog
    /\ loop = NoLoop
    /\ canon = [p \in Paths |-> p]

(***************************************************************************)
(* IndexingTracker: entries maps a path to the receiver of a watch channel  *)
(* whose value is false while the indexing is in progress.  A channel is    *)
(* named by the background task that holds its sender.                     *)
(***************************************************************************)
NoTask == 0
TaskIds == 1..NumTasks
CallIds == 1..NumCalls

\* watch::channel(false): the value and whether the sender still exists.
NewChannel == [value |-> FALSE, alive |-> TRUE]
NoChannel == [value |-> FALSE, alive |-> FALSE]

\* IndexingTracker::new
NewTracker == [entries |-> [p \in Paths |-> NoTask], chan |-> [t \in TaskIds |-> NoChannel]]

\* entries.retain(|_, rx| !*rx.borrow() && rx.has_changed().is_ok())
Retain(tr) ==
    [tr EXCEPT !.entries =
        [p \in Paths |->
            IF /\ tr.entries[p] # NoTask
               /\ ~tr.chan[tr.entries[p]].value
               /\ tr.chan[tr.entries[p]].alive
            THEN tr.entries[p]
            ELSE NoTask]]

is_indexing(tr, path) ==
    /\ tr.entries[path] # NoTask
    /\ ~tr.chan[tr.entries[path]].value

\* start_indexing without the clean-up of completed or dropped entries (a mutant).
start_indexing_without_retain(tr, path, t) ==
    IF tr.entries[path] # NoTask
    THEN [handle |-> NoTask, tracker |-> tr]
    ELSE [handle |-> t,
          tracker |-> [entries |-> [tr.entries EXCEPT ![path] = t],
                       chan |-> [tr.chan EXCEPT ![t] = NewChannel]]]

\* start_indexing: the handle is the channel t, or NoTask for None.
start_indexing(tr, path, t) ==
    LET r == Retain(tr)
    IN  IF r.entries[path] # NoTask
        THEN [handle |-> NoTask, tracker |-> r]
        ELSE [handle |-> t,
              tracker |-> [entries |-> [r.entries EXCEPT ![path] = t],
                           chan |-> [r.chan EXCEPT ![t] = NewChannel]]]

\* wait_for_completion: a clone of the receiver, or NoTask for None.
wait_for_completion(tr, path) ==
    LET r == Retain(tr)
    IN  [rx |-> r.entries[path], tracker |-> r]

\* Drop for IndexingHandle without complete(): the sender is dropped, the value
\* stays false and the channel is closed.
drop_handle(tr, t) == [tr EXCEPT !.chan[t] = [value |-> FALSE, alive |-> FALSE]]

\* complete() that sends nothing and leaks the sender (a mutant).
complete_keeps_channel_open(tr, t) == tr

\* IndexingHandle::complete: send(true), then the sender is dropped.
complete(tr, t) == [tr EXCEPT !.chan[t] = [value |-> TRUE, alive |-> FALSE]]

(***************************************************************************)
(* The MCP server: query tools, index_repository, and the background       *)
(* auto-index tasks.  An index run (a spawn_blocking closure) goes through  *)
(* the steps                                                               *)
(*   start -> opened -> ensured -> txn -> ok | err | panic                  *)
(* open, ensure_repo (autocommit), BEGIN IMMEDIATE, the walk and COMMIT.    *)
(* BEGIN IMMEDIATE takes the DB's write lock; a writer that finds the lock  *)
(* taken waits for it, and fails with "database is locked" when the busy    *)
(* timeout runs out.                                                       *)
(***************************************************************************)
QueryTools == { "get_overview", "get_file_symbols", "get_symbol_detail", "search_symbols",
                "get_references", "get_dependencies", "index_status" }

NoHolder == <<"none", 0>>
BgRunner(t) == <<"bg", t>>
IrRunner(c) == <<"ir", c>>
Runners == { BgRunner(t) : t \in TaskIds } \cup { IrRunner(c) : c \in CallIds }

IdleTask == [pc |-> "idle", path |-> RepoPath, completed |-> FALSE, watch_sent |-> FALSE]
IdleCall == [pc |-> "idle", path |-> RepoPath, rx |-> NoTask, stats |-> NoStats]
NoResp == [tool |-> "none", result |-> "none", stats |-> NoStats]

PcOf(r) == IF r[1] = "bg" THEN bg[r[2]].pc ELSE ir[r[2]].pc
PathOf(r) == IF r[1] = "bg" THEN bg[r[2]].path ELSE ir[r[2]].path

\* The index run of runner r has opened the storage and has not returned yet.
RunPhases == { "opened", "ensured", "txn" }
Running(r) == PcOf(r) \in RunPhases

\* A background task exists from tokio::spawn to the end of its async block.
TaskExists(t) == bg[t].pc \notin { "idle", "ended" }

\* The slots for a new task.
FreeTasks == { t \in TaskIds : ~TaskExists(t) }
FreeTask == IF FreeTasks = {} THEN NoTask ELSE SetMin(FreeTasks)

SetPc(r, pc) ==
    IF r[1] = "bg"
    THEN bg' = [bg EXCEPT ![r[2]].pc = pc] /\ UNCHANGED ir
    ELSE ir' = [ir EXCEPT ![r[2]].pc = pc] /\ UNCHANGED bg

\* trigger_background_index without the tracker: spawns a task on every call.
trigger_background_index_unchecked(path) ==
    [result |-> "indexing started",
     tracker |-> [tracker EXCEPT !.entries[path] = FreeTask, !.chan[FreeTask] = NewChannel],
     bg |-> [bg EXCEPT ![FreeTask] = [IdleTask EXCEPT !.pc = "start", !.path = path]]]

\* trigger_background_index: the notice it returns, and the tracker and the
\* tasks after it.
trigger_background_index(path) ==
    IF is_indexing(tracker, path)
    THEN [result |-> "currently being indexed", tracker |-> tracker, bg |-> bg]
    ELSE LET s == start_indexing(tracker, path, FreeTask)
         IN  IF s.handle = NoTask
             THEN [result |-> "currently being indexed", tracker |-> s.tracker, bg |-> bg]
             ELSE [result |-> "indexing started",
                   tracker |-> s.tracker,
                   bg |-> [bg EXCEPT ![s.handle] =
                              [IdleTask EXCEPT !.pc = "start", !.path = path]]]

\* ensure_indexed with the DB file as the only test.
ensure_indexed_db_file_only(path) ==
    IF ~has_index_db(db[path])
    THEN trigger_background_index(path)
    ELSE [result |-> "None", tracker |-> tracker, bg |-> bg]

\* ensure_indexed: "None" when the repository is indexed, else the notice of
\* trigger_background_index.
ensure_indexed(path) ==
    IF ~has_index_db(db[path])
    THEN trigger_background_index(path)
    ELSE IF is_repo_indexed(open(db[path]), path)
         THEN [result |-> "None", tracker |-> tracker, bg |-> bg]
         ELSE trigger_background_index(path)

InitServer ==
    /\ tracker = NewTracker
    /\ bg = [t \in TaskIds |-> IdleTask]
    /\ ir = [c \in CallIds |-> IdleCall]
    /\ dbLock = NoHolder
    /\ resp = NoResp
    /\ watching = {}

\* The server starts on a repository with two source files and no index.
Init ==
    /\ disk = [f \in RelPaths |-> IF f = F_a THEN 4 ELSE IF f = F_g THEN 5 ELSE Absent]
    /\ db = [p \in Paths |-> EmptyDb]
    /\ cfg = [ignore |-> <<>>, max_file_size |-> 2]
    /\ lastOp = [kind |-> "none", prev |-> "none", files |-> <<>>, stats |-> NoStats]
    /\ nOps = 0
    /\ InitServer
    /\ InitWatcher
    /\ InitAux

\* A query tool: ensure_indexed, then either its notice or the query's results.
QueryTool(tool, path) ==
    /\ FreeTasks # {}
    /\ LET e == ensure_indexed(path)
       IN  /\ tracker' = e.tracker
           /\ bg' = e.bg
           /\ resp' = [tool |-> tool,
                       result |-> IF e.result = "None" THEN "results" ELSE e.result,
                       stats |-> NoStats]
    /\ UNCHANGED <<disk, db, cfg, idxVars, auxVars, ir, dbLock, watching, wVars>>

\* index_repository up to its first await: the receiver of an in-flight
\* background indexing, if there is one.
IndexRepositoryCall(c, path) ==
    /\ ir[c].pc = "idle"
    /\ LET w == wait_for_completion(tracker, path)
       IN  /\ tracker' = w.tracker
           /\ ir' = [ir EXCEPT ![c] = [pc |-> IF w.rx # NoTask THEN "waiting" ELSE "start",
                                       path |-> path, rx |-> w.rx, stats |-> NoStats]]
    /\ UNCHANGED <<disk, db, cfg, idxVars, auxVars, bg, dbLock, resp, watching, wVars>>

\* while !*rx.borrow() { if rx.changed().await.is_err() { break } }
\* (rx = NoTask once the channel's sender has completed and is gone.)
IndexRepositoryWake(c) ==
    /\ ir[c].pc = "waiting"
    /\ IF ir[c].rx = NoTask
       THEN TRUE
       ELSE tracker.chan[ir[c].rx].value \/ ~tracker.chan[ir[c].rx].alive
    /\ ir' = [ir EXCEPT ![c].pc = "start", ![c].rx = NoTask]
    /\ UNCHANGED <<disk, db, cfg, idxVars, auxVars, tracker, bg, dbLock, resp, watching, wVars>>

\* SqliteStorage::open fails, or the path cannot be canonicalized.
JobFailsToStart(r) ==
    /\ PcOf(r) = "start"
    /\ SetPc(r, "err")
    /\ UNCHANGED <<disk, db, cfg, idxVars, auxVars, tracker, dbLock, resp, watching, wVars>>

JobOpen(r) ==
    /\ PcOf(r) = "start"
    /\ db' = [db EXCEPT ![PathOf(r)] = open(@)]
    /\ SetPc(r, "opened")
    /\ UNCHANGED <<disk, cfg, idxVars, auxVars, tracker, dbLock, resp, watching, wVars>>

\* storage.ensure_repo(abs_path): a write outside the transaction.
JobEnsureRepo(r) ==
    /\ PcOf(r) = "opened"
    /\ dbLock = NoHolder
    /\ db' = [db EXCEPT ![PathOf(r)] = ensure_repo(@, Canonicalize(PathOf(r)))]
    /\ SetPc(r, "ensured")
    /\ UNCHANGED <<disk, cfg, idxVars, auxVars, tracker, dbLock, resp, watching, wVars>>

\* storage.begin_transaction(): BEGIN IMMEDIATE.
JobBegin(r) ==
    /\ PcOf(r) = "ensured"
    /\ dbLock = NoHolder
    /\ dbLock' = r
    /\ SetPc(r, "txn")
    /\ UNCHANGED <<disk, db, cfg, idxVars, auxVars, tracker, resp, watching, wVars>>

\* The write lock is held by another connection until the busy timeout.
JobBusy(r) ==
    /\ PcOf(r) \in { "opened", "ensured" }
    /\ dbLock # NoHolder
    /\ SetPc(r, "err")
    /\ UNCHANGED <<disk, db, cfg, idxVars, auxVars, tracker, dbLock, resp, watching, wVars>>

\* The walk, remove_deleted_files, resolve_references, update_repo_timestamp
\* and COMMIT.
JobCommit(r) ==
    /\ PcOf(r) = "txn"
    /\ LET res == index(db[PathOf(r)], PathOf(r), disk, cfg.ignore, cfg.max_file_size)
       IN  /\ db' = [db EXCEPT ![PathOf(r)] = res.db]
           /\ IF r[1] = "bg"
              THEN bg' = [bg EXCEPT ![r[2]].pc = "ok"] /\ UNCHANGED ir
              ELSE ir' = [ir EXCEPT ![r[2]].pc = "ok", ![r[2]].stats = res.stats]
                   /\ UNCHANGED bg
    /\ dbLock' = NoHolder
    /\ UNCHANGED <<disk, cfg, idxVars, auxVars, tracker, resp, watching, wVars>>

\* An error or a panic inside the transaction: the connection is dropped and
\* the transaction rolled back.
JobAborts(r, outcome) ==
    /\ PcOf(r) = "txn"
    /\ SetPc(r, outcome)
    /\ dbLock' = NoHolder
    /\ UNCHANGED <<disk, db, cfg, idxVars, auxVars, tracker, resp, watching, wVars>>

\* The end of a background task that leaves its handle uncompleted.
TaskFinish_without_complete(t) ==
    /\ bg[t].pc \in { "ok", "err", "panic" }
    /\ bg' = [bg EXCEPT ![t].pc = "ended", ![t].watch_sent = (bg[t].pc = "ok")]
    /\ watching' = IF bg[t].pc = "ok" THEN watching \cup { bg[t].path } ELSE watching
    /\ UNCHANGED <<disk, db, cfg, idxVars, auxVars, tracker, ir, dbLock, resp, wVars>>

\* The end of the background task: match result { Ok(Ok(stats)) => watch_repo,
\* .. }, then handle.complete().
TaskFinish(t) ==
    /\ bg[t].pc \in { "ok", "err", "panic" }
    /\ bg' = [bg EXCEPT ![t].pc = "ended", ![t].completed = TRUE,
                        ![t].watch_sent = (bg[t].pc = "ok")]
    /\ watching' = IF bg[t].pc = "ok" THEN watching \cup { bg[t].path } ELSE watching
    /\ tracker' = complete(tracker, t)
    /\ ir' = [c \in CallIds |->
                IF ir[c].pc = "waiting" /\ ir[c].rx = t
                THEN [ir[c] EXCEPT !.rx = NoTask]
                ELSE ir[c]]
    /\ UNCHANGED <<disk, db, cfg, idxVars, auxVars, dbLock, resp, wVars>>

\* index_repository after its run: watch_repo and the stats, or the error.
IndexRepositoryReturn(c) ==
    /\ ir[c].pc \in { "ok", "err", "panic" }
    /\ resp' = [tool |-> "index_repository",
                result |-> IF ir[c].pc = "ok" THEN "stats" ELSE "error",
                stats |-> ir[c].stats]
    /\ watching' = IF ir[c].pc = "ok" THEN watching \cup { ir[c].path } ELSE watching
    /\ ir' = [ir EXCEPT ![c] = IdleCall]
    /\ UNCHANGED <<disk, db, cfg, idxVars, auxVars, tracker, bg, dbLock, wVars>>

Next ==
    \/ \E tool \in QueryTools, p \in Paths : QueryTool(tool, p)
    \/ \E c \in CallIds, p \in Paths : IndexRepositoryCall(c, p)
    \/ \E c \in CallIds : IndexRepositoryWake(c)
    \/ \E r \in Runners : JobFailsToStart(r)
    \/ \E r \in Runners : JobOpen(r)
    \/ \E r \in Runners : JobEnsureRepo(r)
    \/ \E r \in Runners : JobBegin(r)
    \/ \E r \in Runners : JobBusy(r)
    \/ \E r \in Runners : JobCommit(r)
    \/ \E r \in Runners, outcome \in { "err", "panic" } : JobAborts(r, outcome)
    \/ \E t \in TaskIds : TaskFinish(t)
    \/ \E c \in CallIds : IndexRepositoryReturn(c)

Spec == Init /\ [][Next]_vars

(***************************************************************************)
(* The MCP server when a background task can end without reaching           *)
(* handle.complete(): its async block panics outside of spawn_blocking      *)
(* (config_cache.get before the run, skills::refresh after it), and the     *)
(* IndexingHandle it owns is dropped.                                       *)
(***************************************************************************)
TaskDropped(t) ==
    /\ bg[t].pc \in { "start", "ok" }
    /\ bg' = [bg EXCEPT ![t].pc = "ended"]
    /\ tracker' = drop_handle(tracker, t)
    /\ UNCHANGED <<disk, db, cfg, idxVars, auxVars, ir, dbLock, resp, watching, wVars>>

NextDrop ==
    \/ Next
    \/ \E t \in TaskIds : TaskDropped(t)

SpecDrop == Init /\ [][NextDrop]_vars

(***************************************************************************)
(* The MCP server called with a path string that may not be in canonical    *)
(* form (a symlink, a trailing "/." or a relative path): the DB file and    *)
(* the tracker are keyed by the string as given, the repository row by what *)
(* std::fs::canonicalize returns for it.                                    *)
(***************************************************************************)
CanonicalForms == { RepoPath, "/real/repo" }

InitCanon ==
    /\ disk = [f \in RelPaths |-> IF f = F_a THEN 4 ELSE IF f = F_g THEN 5 ELSE Absent]
    /\ db = [p \in Paths |-> EmptyDb]
    /\ cfg = [ignore |-> <<>>, max_file_size |-> 2]
    /\ lastOp = [kind |-> "none", prev |-> "none", files |-> <<>>, stats |-> NoStats]
    /\ nOps = 0
    /\ InitServer
    /\ InitWatcher
    /\ conn = NoConn
    /\ boot = NoBoot
    /\ dlog = NoLog
    /\ loop = NoLoop
    /\ canon \in [Paths -> CanonicalForms]

SpecCanon == InitCanon /\ [][Next]_vars

(***************************************************************************)
(* The watcher at work: a repository that was indexed at startup and is     *)
(* being watched, files that change on disk, the event loop (fs events and  *)
(* the debounce timer) and the workers its flushes spawn.                   *)
(***************************************************************************)
WatchedFiles == { F_a, F_g }
WatchedContents == { 3, 4, 5 }

RemoveAt(q, i) == SubSeq(q, 1, i - 1) \o SubSeq(q, i + 1, Len(q))

\* The notify callback on an event of kind for rel: filtered, then try_send.
Notify(rel, kind) ==
    IF RepoPath \in watchers /\ CallbackAccepts(rel)
    THEN Append(fsq, [repo_path |-> RepoPath, rel_path |-> rel, kind |-> kind])
    ELSE fsq

\* watcher::start on a known repository: the startup re-index, then the
\* repository is watched.
InitWatch ==
    /\ disk \in { [f \in RelPaths |-> IF f = F_a THEN 4 ELSE Absent],
                  [f \in RelPaths |-> IF f = F_d THEN Absent ELSE 4] }
    /\ cfg = [ignore |-> <<>>, max_file_size |-> 2]
    /\ InitAux
    /\ db = [p \in Paths |->
                index(open(EmptyDb), p, disk, cfg.ignore, cfg.max_file_size).db]
    /\ lastOp = [kind |-> "none", prev |-> "none", files |-> <<>>, stats |-> NoStats]
    /\ nOps = 0
    /\ InitServer
    /\ fsq = <<>>
    /\ debouncer = NewDebouncer
    /\ clock = 0
    /\ workers = <<>>
    /\ watchers = { RepoPath }

\* A file is created or modified; the OS reports Create or Modify.
FileWritten(f, c) ==
    /\ nOps < MaxOps
    /\ Len(fsq) < MaxQueue
    /\ disk[f] # c
    /\ disk' = [disk EXCEPT ![f] = c]
    /\ fsq' = Notify(f, "Modified")
    /\ nOps' = nOps + 1
    /\ UNCHANGED <<db, cfg, lastOp, auxVars, srvVars, debouncer, clock, workers, watchers>>

\* A file is removed; the OS reports Remove.
FileRemoved(f) ==
    /\ nOps < MaxOps
    /\ Len(fsq) < MaxQueue
    /\ disk[f] # Absent
    /\ disk' = [disk EXCEPT ![f] = Absent]
    /\ fsq' = Notify(f, "Deleted")
    /\ nOps' = nOps + 1
    /\ UNCHANGED <<db, cfg, lastOp, auxVars, srvVars, debouncer, clock, workers, watchers>>

\* event_loop, branch fs_rx.recv(): the repository's ignore patterns, then
\* debouncer.record.
RecvFsEvent ==
    /\ fsq # <<>>
    /\ LET ev == Head(fsq)
       IN  debouncer' =
               IF /\ ev.repo_path \in watchers
                  /\ matches_ignore_pattern(ev.rel_path, cfg.ignore)
               THEN debouncer
               ELSE record(debouncer, ev.repo_path, ev.rel_path, ev.kind, clock)
    /\ fsq' = Tail(fsq)
    /\ UNCHANGED <<disk, db, cfg, idxVars, auxVars, srvVars, clock, workers, watchers>>

\* Time passes while the debounce timer runs.
Tick ==
    /\ clock < MaxClock
    /\ time_until_flush(debouncer, clock) > 0
    /\ clock' = clock + 1
    /\ UNCHANGED <<disk, db, cfg, idxVars, auxVars, srvVars, fsq, debouncer, workers, watchers>>

\* event_loop, branch sleep(sleep_duration): when the debouncer is ready, flush
\* and spawn one worker for each watched repository of the batches.
FlushDispatch ==
    /\ is_ready(debouncer, clock)
    /\ LET f == flush(debouncer)
           Job(p) == [repo_path |-> p,
                      modified |-> { e.rel_path : e \in { x \in f.batches :
                                        x.repo_path = p /\ x.kind = "Modified" } },
                      deleted |-> { e.rel_path : e \in { x \in f.batches :
                                        x.repo_path = p /\ x.kind = "Deleted" } },
                      ignore |-> cfg.ignore,
                      max_size |-> cfg.max_file_size]
       IN  /\ debouncer' = f.debouncer
           /\ workers' = IF RepoPath \in watchers /\ \E x \in f.batches : x.repo_path = RepoPath
                         THEN Append(workers, Job(RepoPath))
                         ELSE workers
    /\ UNCHANGED <<disk, db, cfg, idxVars, auxVars, srvVars, fsq, clock, watchers>>

\* The flush of a run with a bounded number of workers in flight.
FlushTimer ==
    /\ Len(workers) < MaxWorkers
    /\ FlushDispatch

\* A spawned worker runs on the blocking pool; nothing orders the workers of
\* successive flushes.
WorkerRuns(i) ==
    /\ i \in 1..Len(workers)
    /\ db' = [db EXCEPT ![workers[i].repo_path] = FlushWorker(@, workers[i], disk)]
    /\ workers' = RemoveAt(workers, i)
    /\ UNCHANGED <<disk, cfg, idxVars, auxVars, srvVars, fsq, debouncer, clock, watchers>>

NextWatch ==
    \/ \E f \in WatchedFiles, c \in WatchedContents : FileWritten(f, c)
    \/ \E f \in WatchedFiles : FileRemoved(f)
    \/ RecvFsEvent
    \/ Tick
    \/ FlushTimer
    \/ \E i \in 1..MaxWorkers : WorkerRuns(i)

SpecWatch == InitWatch /\ [][NextWatch]_vars

(***************************************************************************)
(* The indexer on its own: a working tree that changes, and synchronous     *)
(* calls of index, update_files and delete_files_by_rel_paths on the        *)
(* repository's storage (the way the integration tests and the CLI drive    *)
(* it).                                                                    *)
(***************************************************************************)
IgnoreChoices == { <<>>, << <<"g", "/">> >> }
Configs == { [ignore |-> ig, max_file_size |-> m] : ig \in IgnoreChoices, m \in {1, 2} }

Op(kind, files, stats) == [kind |-> kind, prev |-> lastOp.kind, files |-> files, stats |-> stats]

\* One more operation of a bounded run.
Step ==
    /\ nOps < MaxOps
    /\ nOps' = nOps + 1

\* Row ids stay within the model's bound.
IdsWithinBound(d) ==
    /\ \A f \in d.files : f.id <= MaxRowId
    /\ \A s \in d.symbols : s.id <= MaxRowId

\* The lists of paths a caller hands to update_files / delete_files_by_rel_paths.
FileLists == { <<f>> : f \in RelPaths } \cup { <<F_a, F_g>> }

SeqToSet(q) == { q[i] : i \in 1..Len(q) }

\* The working trees a run starts from: an empty one, and one with a function
\* in a.ts and a class in g/b.md.
InitialTrees ==
    { [f \in RelPaths |-> Absent],
      [f \in RelPaths |-> IF f = F_a THEN 4 ELSE IF f = F_g THEN 5 ELSE Absent] }

InitIdx ==
    /\ disk = [f \in RelPaths |-> Absent]
    /\ db = [p \in Paths |-> EmptyDb]
    /\ cfg \in Configs
    /\ lastOp = [kind |-> "none", prev |-> "none", files |-> <<>>, stats |-> NoStats]
    /\ nOps = 0
    /\ InitServer
    /\ InitWatcher
    /\ InitAux

WriteFile(f, c) ==
    /\ Step
    /\ disk[f] # c
    /\ disk' = [disk EXCEPT ![f] = c]
    /\ lastOp' = Op("write", <<f>>, NoStats)
    /\ UNCHANGED <<db, cfg>>
    /\ UNCHANGED <<srvVars, wVars, auxVars>>

RemoveFile(f) ==
    /\ Step
    /\ disk[f] # Absent
    /\ disk' = [disk EXCEPT ![f] = Absent]
    /\ lastOp' = Op("remove", <<f>>, NoStats)
    /\ UNCHANGED <<db, cfg>>
    /\ UNCHANGED <<srvVars, wVars, auxVars>>

IndexCall ==
    LET r == index(open(db[RepoPath]), RepoPath, disk, cfg.ignore, cfg.max_file_size)
    IN  /\ Step
        /\ IdsWithinBound(r.db)
        /\ db' = [db EXCEPT ![RepoPath] = r.db]
        /\ lastOp' = Op("index", <<>>, r.stats)
        /\ UNCHANGED <<disk, cfg>>
        /\ UNCHANGED <<srvVars, wVars, auxVars>>

UpdateFilesCall(files) ==
    LET r == update_files(open(db[RepoPath]), RepoPath, files, disk,
                          cfg.ignore, cfg.max_file_size)
    IN  /\ Step
        /\ IdsWithinBound(r.db)
        /\ db' = [db EXCEPT ![RepoPath] = r.db]
        /\ lastOp' = Op("update_files", files, r.stats)
        /\ UNCHANGED <<disk, cfg>>
        /\ UNCHANGED <<srvVars, wVars, auxVars>>

DeleteFilesCall(files) ==
    LET r == delete_files_by_rel_paths(open(db[RepoPath]), RepoPath, SeqToSet(files))
    IN  /\ Step
        /\ db' = [db EXCEPT ![RepoPath] = r.db]
        /\ lastOp' = Op("delete_files", files, [NoStats EXCEPT !.files_deleted = r.count])
        /\ UNCHANGED <<disk, cfg>>
        /\ UNCHANGED <<srvVars, wVars, auxVars>>

NextIdx ==
    \/ \E f \in RelPaths, c \in Contents : WriteFile(f, c)
    \/ \E f \in RelPaths : RemoveFile(f)
    \/ IndexCall
    \/ \E files \in FileLists : UpdateFilesCall(files)
    \/ \E files \in FileLists : DeleteFilesCall(files)

SpecIdx == InitIdx /\ [][NextIdx]_vars

(***************************************************************************)
(* A run of index / update_files statement by statement on the connection   *)
(* of its caller: ensure_repo in autocommit, BEGIN IMMEDIATE, the writes of  *)
(* each file inside the transaction, and COMMIT; or an error that `?`        *)
(* returns from the run with the transaction open, which SQLite rolls back   *)
(* when the caller's SqliteStorage is dropped.  db is the committed content  *)
(* of the DB file; conn.acc.db is what the connection sees in its            *)
(* transaction.                                                            *)
(***************************************************************************)
Tables(d) == [files |-> d.files, symbols |-> d.symbols, refs |-> d.refs]

\* SqliteStorage::open, ensure_repo (committed at once) and begin_transaction.
TxnBegin(kind, files) ==
    /\ conn.state \in { "closed", "rolled_back" }
    /\ Step
    /\ LET Begun(d0) ==
               /\ db' = [db EXCEPT ![RepoPath] = d0]
               /\ conn' = [state |-> "txn",
                           kind |-> kind,
                           files |-> files,
                           todo |-> IF kind = "index" THEN WalkOrder ELSE files,
                           acc |-> IF kind = "index"
                                   THEN IndexAcc(d0, RepoIdOf(d0, Canonicalize(RepoPath)))
                                   ELSE UpdateAcc(d0),
                           before |-> db[RepoPath]]
       IN  Begun(ensure_repo(open(db[RepoPath]), Canonicalize(RepoPath)))
    /\ lastOp' = Op("begin", files, NoStats)
    /\ UNCHANGED <<disk, cfg, srvVars, wVars, boot, dlog, envVars>>

\* One turn of the loop over the walk (index) or over the listed files
\* (update_files): the writes go to the open transaction.
TxnStep ==
    /\ conn.state = "txn"
    /\ conn.todo # <<>>
    /\ LET Stepped(next) ==
               /\ IdsWithinBound(next.db)
               /\ conn' = [conn EXCEPT !.acc = next, !.todo = Tail(@)]
           repo_id == RepoIdOf(conn.acc.db, Canonicalize(RepoPath))
       IN  Stepped(IF conn.kind = "index"
                   THEN IndexWalk(conn.acc, << Head(conn.todo) >>, disk,
                                  cfg.ignore, cfg.max_file_size, repo_id)
                   ELSE UpdateLoop(conn.acc, << Head(conn.todo) >>, disk,
                                   cfg.ignore, cfg.max_file_size, repo_id))
    /\ UNCHANGED <<disk, db, cfg, idxVars, srvVars, wVars, boot, dlog, envVars>>

\* The end of the run: the statements after the loop, and COMMIT.
TxnCommit ==
    /\ conn.state = "txn"
    /\ conn.todo = <<>>
    /\ LET Committed(res) ==
               /\ IdsWithinBound(res.db)
               /\ db' = [db EXCEPT ![RepoPath] = res.db]
               /\ lastOp' = Op(conn.kind, conn.files, res.stats)
           repo_id == RepoIdOf(conn.acc.db, Canonicalize(RepoPath))
       IN  Committed(IF conn.kind = "index"
                     THEN IndexFinish(repo_id, conn.acc)
                     ELSE UpdateFinish(repo_id, conn.acc))
    /\ conn' = NoConn
    /\ UNCHANGED <<disk, cfg, nOps, srvVars, wVars, boot, dlog, envVars>>

\* A statement inside the transaction fails with a storage error: `?` returns
\* the error from the run, and the transaction is still open on the connection.
TxnFails ==
    /\ conn.state = "txn"
    /\ conn' = [conn EXCEPT !.state = "failed"]
    /\ UNCHANGED <<disk, db, cfg, idxVars, srvVars, wVars, boot, dlog, envVars>>

\* The end of the caller's closure with the writes of the open transaction
\* kept in the DB file (a mutant).
ConnDrop_keeps_writes ==
    /\ conn.state = "failed"
    /\ conn' = [conn EXCEPT !.state = "rolled_back"]
    /\ db' = [db EXCEPT ![RepoPath] = conn.acc.db]
    /\ lastOp' = Op("failed", conn.files, NoStats)
    /\ UNCHANGED <<disk, cfg, nOps, srvVars, wVars, boot, dlog, envVars>>

\* The end of the caller's closure: its SqliteStorage is dropped, the
\* connection closes and SQLite rolls the open transaction back.
ConnDrop ==
    /\ conn.state = "failed"
    /\ conn' = [conn EXCEPT !.state = "rolled_back"]
    /\ db' = db
    /\ lastOp' = Op("failed", conn.files, NoStats)
    /\ UNCHANGED <<disk, cfg, nOps, srvVars, wVars, boot, dlog, envVars>>

\* The runs start on a repository with the default configuration.
InitTxn ==
    /\ disk \in InitialTrees
    /\ db = [p \in Paths |-> EmptyDb]
    /\ cfg = [ignore |-> <<>>, max_file_size |-> 2]
    /\ lastOp = [kind |-> "none", prev |-> "none", files |-> <<>>, stats |-> NoStats]
    /\ nOps = 0
    /\ InitServer
    /\ InitWatcher
    /\ InitAux

NextTxn ==
    \/ \E f \in WatchedFiles, c \in WatchedContents : WriteFile(f, c)
    \/ \E f \in WatchedFiles : RemoveFile(f)
    \/ \E kind \in { "index", "update_files" }, files \in FileLists : TxnBegin(kind, files)
    \/ TxnStep
    \/ TxnCommit
    \/ TxnFails
    \/ ConnDrop

SpecTxn == InitTxn /\ [][NextTxn]_vars

(***************************************************************************)
(* The start of the server: server::run awaits watcher::start, which lists   *)
(* the known repositories and, for each whose directory exists, awaits a     *)
(* blocking full index and creates its watcher; then the event loop is       *)
(* spawned, the handle returned, and the MCP service starts serving.         *)
(***************************************************************************)
BootRepos == { RepoPath, "/r2", "/r3" }
\* repos.sort_by(abs_path)
BootOrder == << "/r2", "/r3", RepoPath >>

\* storage::list_indexed_repos() for a cache directory holding the DBs of K.
list_indexed_repos(K) == SelectSeq(BootOrder, LAMBDA r : r \in K)

InitBoot ==
    /\ loop = NoLoop
    /\ canon = [p \in Paths |-> p]
    /\ disk \in InitialTrees
    /\ cfg = [ignore |-> <<>>, max_file_size |-> 2]
    /\ \E K \in SUBSET BootRepos, D \in SUBSET BootRepos :
          /\ boot = [pc |-> "start", known |-> K, dirs |-> D, todo |-> <<>>,
                     running |-> {}, finished |-> {}, served |-> 0]
          /\ db = [p \in Paths |->
                     IF p \in K
                     THEN index(open(EmptyDb), p,
                                [f \in RelPaths |-> IF f = F_a THEN 4 ELSE Absent],
                                <<>>, 2).db
                     ELSE EmptyDb]
    /\ lastOp = [kind |-> "none", prev |-> "none", files |-> <<>>, stats |-> NoStats]
    /\ nOps = 0
    /\ InitServer
    /\ InitWatcher
    /\ conn = NoConn
    /\ dlog = NoLog

\* let repos = storage::list_indexed_repos().unwrap_or_default();
BootList ==
    /\ boot.pc = "start"
    /\ boot' = [boot EXCEPT !.pc = "loop", !.todo = list_indexed_repos(boot.known)]
    /\ UNCHANGED <<disk, db, cfg, idxVars, srvVars, wVars, conn, dlog, envVars>>

\* if !Path::new(repo_path).is_dir() { continue; }
BootSkip ==
    /\ boot.pc = "loop"
    /\ boot.todo # <<>>
    /\ boot.running = {}
    /\ Head(boot.todo) \notin boot.dirs
    /\ boot' = [boot EXCEPT !.todo = Tail(@)]
    /\ UNCHANGED <<disk, db, cfg, idxVars, srvVars, wVars, conn, dlog, envVars>>

\* spawn_blocking(open, index) for the next repository; start() awaits it.
BootReindex ==
    /\ boot.pc = "loop"
    /\ boot.todo # <<>>
    /\ boot.running = {}
    /\ Head(boot.todo) \in boot.dirs
    /\ boot' = [boot EXCEPT !.todo = Tail(@), !.running = { Head(boot.todo) }]
    /\ UNCHANGED <<disk, db, cfg, idxVars, srvVars, wVars, conn, dlog, envVars>>

\* The awaited run ends: Ok(Ok(stats)) creates the repository's watcher;
\* Ok(Err(e)) and Err(e) continue with the next repository.
BootRunEnds(outcome) ==
    /\ boot.running # {}
    /\ boot' = [boot EXCEPT !.running = {}, !.finished = @ \cup boot.running]
    /\ IF outcome = "ok"
       THEN /\ watchers' = watchers \cup boot.running
            /\ db' = [p \in Paths |->
                        IF p \in boot.running
                        THEN index(open(db[p]), p, disk, cfg.ignore, cfg.max_file_size).db
                        ELSE db[p]]
       ELSE UNCHANGED <<watchers, db>>
    /\ UNCHANGED <<disk, cfg, idxVars, srvVars, fsq, debouncer, clock, workers, conn, dlog, envVars>>

\* The end of start() without the runs awaited (a mutant).
BootReturnHandle_without_await ==
    /\ boot.pc = "loop"
    /\ boot.todo = <<>>
    /\ boot' = [boot EXCEPT !.pc = "started"]
    /\ UNCHANGED <<disk, db, cfg, idxVars, srvVars, wVars, conn, dlog, envVars>>

\* tokio::spawn(event_loop(..)); WatcherHandle { cmd_tx }
BootReturnHandle ==
    /\ boot.pc = "loop"
    /\ boot.todo = <<>>
    /\ boot.running = {}
    /\ boot' = [boot EXCEPT !.pc = "started"]
    /\ UNCHANGED <<disk, db, cfg, idxVars, srvVars, wVars, conn, dlog, envVars>>

\* CtxhelprServer::new(indexer, config_cache, watcher_handle).serve(stdio())
BootServe ==
    /\ boot.pc = "started"
    /\ boot' = [boot EXCEPT !.pc = "serving"]
    /\ UNCHANGED <<disk, db, cfg, idxVars, srvVars, wVars, conn, dlog, envVars>>

\* A tool call is served.
BootToolCall(tool) ==
    /\ boot.pc = "serving"
    /\ boot.served < NumCalls
    /\ boot' = [boot EXCEPT !.served = @ + 1]
    /\ resp' = [tool |-> tool, result |-> "results", stats |-> NoStats]
    /\ UNCHANGED <<disk, db, cfg, idxVars, tracker, bg, ir, dbLock, watching, wVars,
                   conn, dlog, envVars>>

NextBoot ==
    \/ BootList
    \/ BootSkip
    \/ BootReindex
    \/ \E outcome \in { "ok", "err", "panic" } : BootRunEnds(outcome)
    \/ BootReturnHandle
    \/ BootServe
    \/ \E tool \in QueryTools \cup { "index_repository" } : BootToolCall(tool)

SpecBoot == InitBoot /\ [][NextBoot]_vars

(***************************************************************************)
(* The IndexingTracker on its own: callers that start an indexing and       *)
(* complete or drop the handle, and waiters that take a receiver from        *)
(* wait_for_completion and loop until done.  bg[t] is the handle of channel  *)
(* t ("held" while outstanding), ir[c] a waiter.                            *)
(***************************************************************************)
\* The handles issued for a path that are neither completed nor dropped.
Outstanding(p) == { t \in TaskIds : bg[t].pc = "held" /\ bg[t].path = p }

\* The channels nobody holds an end of: no outstanding handle, no waiter's receiver.
FreeChannels ==
    { t \in TaskIds : /\ bg[t].pc # "held"
                      /\ \A c \in CallIds : ~(ir[c].pc = "waiting" /\ ir[c].rx = t) }

TrackerStart(path) ==
    /\ FreeChannels # {}
    /\ LET Started(s) ==
               /\ tracker' = s.tracker
               /\ bg' = IF s.handle = NoTask THEN bg
                         ELSE [bg EXCEPT ![s.handle] =
                                   [IdleTask EXCEPT !.pc = "held", !.path = path]]
               /\ resp' = [tool |-> "start_indexing",
                           result |-> IF s.handle = NoTask THEN "None" ELSE "Some",
                           stats |-> NoStats]
       IN  Started(start_indexing(tracker, path, SetMin(FreeChannels)))
    /\ UNCHANGED <<disk, db, cfg, idxVars, auxVars, ir, dbLock, watching, wVars>>

TrackerComplete(t) ==
    /\ bg[t].pc = "held"
    /\ tracker' = complete(tracker, t)
    /\ bg' = [bg EXCEPT ![t].pc = "ended", ![t].completed = TRUE]
    /\ UNCHANGED <<disk, db, cfg, idxVars, auxVars, ir, dbLock, resp, watching, wVars>>

TrackerDrop(t) ==
    /\ bg[t].pc = "held"
    /\ tracker' = drop_handle(tracker, t)
    /\ bg' = [bg EXCEPT ![t].pc = "ended"]
    /\ UNCHANGED <<disk, db, cfg, idxVars, auxVars, ir, dbLock, resp, watching, wVars>>

\* wait_for_completion: with a receiver the caller starts to wait.
TrackerWait(c, path) ==
    /\ ir[c].pc = "idle"
    /\ LET Got(w) ==
               /\ tracker' = w.tracker
               /\ ir' = IF w.rx = NoTask THEN ir
                         ELSE [ir EXCEPT ![c] = [IdleCall EXCEPT !.pc = "waiting",
                                                                 !.path = path,
                                                                 !.rx = w.rx]]
               /\ resp' = [tool |-> "wait_for_completion",
                           result |-> IF w.rx = NoTask THEN "None" ELSE "Some",
                           stats |-> NoStats]
       IN  Got(wait_for_completion(tracker, path))
    /\ UNCHANGED <<disk, db, cfg, idxVars, auxVars, bg, dbLock, watching, wVars>>

\* while !*rx.borrow() { if rx.changed().await.is_err() { break; } }: the
\* waiter leaves the loop on "done" or on a closed channel.
TrackerWake(c) ==
    /\ ir[c].pc = "waiting"
    /\ IF ir[c].rx = NoTask
       THEN TRUE
       ELSE tracker.chan[ir[c].rx].value \/ ~tracker.chan[ir[c].rx].alive
    /\ ir' = [ir EXCEPT ![c] = IdleCall]
    /\ UNCHANGED <<disk, db, cfg, idxVars, auxVars, tracker, bg, dbLock, resp, watching,
                   wVars>>

NextTracker ==
    \/ \E p \in Paths : TrackerStart(p)
    \/ \E t \in TaskIds : TrackerComplete(t)
    \/ \E t \in TaskIds : TrackerDrop(t)
    \/ \E c \in CallIds, p \in Paths : TrackerWait(c, p)
    \/ \E c \in CallIds : TrackerWake(c)

SpecTracker == Init /\ [][NextTracker]_vars

\* A waiter that can leave its loop is scheduled: tokio wakes the task when
\* the channel's value changes or its sender is dropped.
FairSpecTracker == SpecTracker /\ \A c \in CallIds : WF_vars(TrackerWake(c))

(***************************************************************************)
(* The Debouncer on its own: record and flush called in any order while the  *)
(* time passes.  dlog.log lists the record calls since the last flush;       *)
(* dlog.batch is what the last flush returned and dlog.batch_log the record  *)
(* calls that went into it; dlog.last_at is the time of the last record    *)
(* call.                                                                   *)
(***************************************************************************)
\* The files the record calls are about: two of one repository, one of another.
DebFiles == { <<RepoPath, F_a>>, <<RepoPath, F_g>>, <<"/r2", F_a>> }
ChangeKinds == { "Modified", "Deleted" }

DebRecord(repo_path, rel_path, kind) ==
    /\ Step
    /\ debouncer' = record(debouncer, repo_path, rel_path, kind, clock)
    /\ dlog' = [dlog EXCEPT !.log = Append(@, [repo_path |-> repo_path,
                                                 rel_path |-> rel_path,
                                                 kind |-> kind]),
                            !.last_at = clock]
    /\ UNCHANGED <<disk, db, cfg, lastOp, srvVars, fsq, clock, workers, watchers,
                   conn, boot, envVars>>

DebFlush ==
    /\ LET Flushed(f) ==
               /\ debouncer' = f.debouncer
               /\ dlog' = [log |-> <<>>, batch |-> f.batches, batch_log |-> dlog.log,
                            last_at |-> dlog.last_at]
       IN  Flushed(flush(debouncer))
    /\ UNCHANGED <<disk, db, cfg, idxVars, srvVars, fsq, clock, workers, watchers,
                   conn, boot, envVars>>

\* The time passes, for two debounce delays after the start.
DebTick ==
    /\ clock < 2 * DEBOUNCE_DELAY
    /\ clock' = clock + 1
    /\ UNCHANGED <<disk, db, cfg, idxVars, srvVars, fsq, debouncer, workers, watchers,
                   auxVars>>

NextDeb ==
    \/ \E rf \in DebFiles, k \in ChangeKinds : DebRecord(rf[1], rf[2], k)
    \/ DebFlush
    \/ DebTick

SpecDeb == Init /\ [][NextDeb]_vars

(***************************************************************************)
(* The watcher's event loop with its two channels: the commands the MCP    *)
(* server sends (Watch after a successful index, Unwatch from delete_repos, *)
(* Shutdown) and the events the notify callbacks send with try_send.        *)
(* loop.os is the set of live OS watchers (the RepoWatcher values of the    *)
(* loop's map, each with the number of its creation), loop.lost counts the  *)
(* events whose try_send failed, loop.deleted says that delete_repos has    *)
(* reported the repository deleted and no index run has succeeded since.    *)
(***************************************************************************)
\* mpsc::channel(64) and mpsc::channel(512): the capacity of the model's channels.
ChannelCapacity == MaxQueue

Watch(p) == [kind |-> "Watch", repo_path |-> p]
Unwatch(p) == [kind |-> "Unwatch", repo_path |-> p]
Shutdown == [kind |-> "Shutdown", repo_path |-> ""]

\* Sender::try_send: fails when the channel is full or its receiver is gone.
try_send(q, msg, open_) ==
    IF open_ /\ Len(q) < ChannelCapacity
    THEN [sent |-> TRUE, q |-> Append(q, msg)]
    ELSE [sent |-> FALSE, q |-> q]

\* Watch that creates a watcher without looking for one of the repository (a
\* mutant).
WatchCommand_without_check(w, lp, repo_path, created) ==
    IF created
    THEN [watchers |-> w \cup { repo_path },
          loop |-> [lp EXCEPT !.os = { x \in @ : x.repo_path # repo_path }
                                      \cup { [repo_path |-> repo_path, id |-> lp.created + 1] },
                              !.created = @ + 1]]
    ELSE [watchers |-> w, loop |-> lp]

\* event_loop, Some(WatcherCommand::Watch { repo_path }); created says whether
\* create_repo_watcher returned a watcher.
WatchCommand(w, lp, repo_path, created) ==
    IF repo_path \notin w /\ created
    THEN [watchers |-> w \cup { repo_path },
          loop |-> [lp EXCEPT !.os = @ \cup { [repo_path |-> repo_path,
                                               id |-> lp.created + 1] },
                              !.created = @ + 1]]
    ELSE [watchers |-> w, loop |-> lp]

\* event_loop, Some(WatcherCommand::Unwatch { repo_path }): watchers.remove.
UnwatchCommand(w, lp, repo_path) ==
    [watchers |-> w \ { repo_path },
     loop |-> [lp EXCEPT !.os = { x \in @ : x.repo_path # repo_path }]]

\* Shutdown that leaves the loop and leaks its watchers (a mutant).
ShutdownCommand_keeps_watchers(w, lp) ==
    [watchers |-> w, loop |-> [lp EXCEPT !.alive = FALSE]]

\* event_loop, Some(WatcherCommand::Shutdown) | None => break: the loop's
\* future ends and its locals (watchers, the receivers, the debouncer) are
\* dropped.
ShutdownCommand(w, lp) ==
    [watchers |-> {}, loop |-> [lp EXCEPT !.alive = FALSE, !.os = {}]]

\* watcher::start has re-indexed the repository and watches it.
InitLoop ==
    /\ disk = [f \in RelPaths |-> IF f = F_a THEN 4 ELSE Absent]
    /\ cfg = [ignore |-> <<>>, max_file_size |-> 2]
    /\ conn = NoConn
    /\ boot = NoBoot
    /\ dlog = NoLog
    /\ canon = [p \in Paths |-> p]
    /\ db = [p \in Paths |->
                index(open(EmptyDb), p, disk, cfg.ignore, cfg.max_file_size).db]
    /\ lastOp = [kind |-> "none", prev |-> "none", files |-> <<>>, stats |-> NoStats]
    /\ nOps = 0
    /\ InitServer
    /\ fsq = <<>>
    /\ debouncer = NewDebouncer
    /\ clock = 0
    /\ workers = <<>>
    /\ watchers = { RepoPath }
    /\ loop = [alive |-> TRUE, cmdq |-> <<>>,
               os |-> { [repo_path |-> RepoPath, id |-> 1] },
               created |-> 1, lost |-> 0, deleted |-> FALSE]

\* The OS reports an event of kind on the file rel of the repository to the
\* callback of its watcher: the filters, then tx.try_send.
OsEvent(rel, kind) ==
    /\ Step
    /\ \E x \in loop.os : x.repo_path = RepoPath
    /\ LET Sent(r) ==
               /\ fsq' = r.q
               /\ loop' = [loop EXCEPT !.lost = IF r.sent THEN @ ELSE @ + 1]
       IN  IF CallbackAccepts(rel)
           THEN Sent(try_send(fsq, [repo_path |-> RepoPath, rel_path |-> rel,
                                     kind |-> kind], loop.alive))
           ELSE UNCHANGED <<fsq, loop>>
    /\ UNCHANGED <<disk, db, cfg, lastOp, srvVars, debouncer, clock, workers, watchers,
                   conn, boot, dlog, canon>>

\* An index run of the server succeeds and the server calls watch_repo.
ServerIndexed ==
    /\ Step
    /\ loop.alive
    /\ Len(loop.cmdq) < ChannelCapacity
    /\ db' = [db EXCEPT ![RepoPath] =
                 index(open(@), RepoPath, disk, cfg.ignore, cfg.max_file_size).db]
    /\ loop' = [loop EXCEPT !.cmdq = Append(@, Watch(RepoPath)), !.deleted = FALSE]
    /\ UNCHANGED <<disk, cfg, lastOp, srvVars, wVars, conn, boot, dlog, canon>>

\* delete_repos on the repository's path: delete_repo_index removes the DB
\* file, then unwatch_repo sends Unwatch.
DeleteRepos ==
    /\ Step
    /\ loop.alive
    /\ Len(loop.cmdq) < ChannelCapacity
    /\ db[RepoPath].exists
    /\ db' = [db EXCEPT ![RepoPath] = EmptyDb]
    /\ loop' = [loop EXCEPT !.cmdq = Append(@, Unwatch(RepoPath)), !.deleted = TRUE]
    /\ UNCHANGED <<disk, cfg, lastOp, srvVars, wVars, conn, boot, dlog, canon>>

\* WatcherHandle::shutdown
ServerShutdown ==
    /\ Step
    /\ loop.alive
    /\ Len(loop.cmdq) < ChannelCapacity
    /\ loop' = [loop EXCEPT !.cmdq = Append(@, Shutdown)]
    /\ UNCHANGED <<disk, db, cfg, lastOp, srvVars, wVars, conn, boot, dlog, canon>>

\* event_loop, branch cmd_rx.recv().  After the break the commands left in
\* the channel stay where they are: nobody receives them.
RecvCmd ==
    /\ loop.alive
    /\ loop.cmdq # <<>>
    /\ LET cmd == Head(loop.cmdq)
           lp == [loop EXCEPT !.cmdq = Tail(@)]
           Handled(h) == watchers' = h.watchers /\ loop' = h.loop
       IN  CASE cmd.kind = "Watch" ->
                    \E created \in BOOLEAN :
                        Handled(WatchCommand(watchers, lp, cmd.repo_path, created))
             [] cmd.kind = "Unwatch" ->
                    Handled(UnwatchCommand(watchers, lp, cmd.repo_path))
             [] OTHER -> Handled(ShutdownCommand(watchers, lp))
    /\ UNCHANGED <<disk, db, cfg, idxVars, srvVars, fsq, debouncer, clock, workers,
                   conn, boot, dlog, canon>>

\* event_loop, branch fs_rx.recv(), while the loop runs.
LoopRecvFsEvent == loop.alive /\ RecvFsEvent

\* Time passes while the loop sleeps for time_until_flush().
LoopTick ==
    /\ loop.alive
    /\ time_until_flush(debouncer, clock) > 0
    /\ clock' = clock + 1
    /\ UNCHANGED <<disk, db, cfg, idxVars, auxVars, srvVars, fsq, debouncer, workers,
                   watchers>>

\* event_loop, branch sleep(sleep_duration), while the loop runs.
LoopFlushTimer == loop.alive /\ FlushDispatch

\* The files of the events: one the callback accepts, one it filters.
LoopFiles == { F_a, F_d }

\* One of the spawned workers runs, also after the loop has ended.
LoopWorkerRuns == \E i \in DOMAIN workers : WorkerRuns(i)

NextLoop ==
    \/ \E f \in LoopFiles, k \in ChangeKinds : OsEvent(f, k)
    \/ ServerIndexed
    \/ DeleteRepos
    \/ ServerShutdown
    \/ RecvCmd
    \/ LoopRecvFsEvent
    \/ LoopTick
    \/ LoopFlushTimer
    \/ LoopWorkerRuns

SpecLoop == InitLoop /\ [][NextLoop]_vars

\* Time passes, and the timer branch of tokio::select! is taken when its
\* sleep has ended.
FairSpecLoop ==
    /\ SpecLoop
    /\ WF_vars(LoopTick)
    /\ WF_vars(LoopFlushTimer)

(***************************************************************************)
(* The Markdown extractor: build_hierarchy on the flat list of headings    *)
(* that collect_headings found, each with its level and its line.  lastOp   *)
(* holds the list (files) and, once extracted, the symbols (stats).         *)
(***************************************************************************)
MaxHeadings == 4
MaxHeadingLevel == 6

\* FlatHeading; the heading's text is its line.
FlatHeading(level, line) == [name |-> <<"h", line>>, level |-> level, start_line |-> line]

\* The ExtractedSymbol of a heading.
SectionSymbol(h) ==
    [name |-> h.name, kind |-> "section", start_line |-> h.start_line,
     children |-> <<>>, references |-> <<>>]

\* stack.pop(), then the popped symbol goes to the children of the new top of
\* the stack, or to the result when the stack is empty.
PopStack(st, res) ==
    LET popped == st[Len(st)].sym
        rest == SubSeq(st, 1, Len(st) - 1)
    IN  IF rest # <<>>
        THEN [stack |-> [rest EXCEPT ![Len(rest)].sym.children = Append(@, popped)],
              result |-> res]
        ELSE [stack |-> rest, result |-> Append(res, popped)]

\* The pop loop that stops at a top of the same level (a mutant).
RECURSIVE PopWhileNotParent_same_level_stays(_, _, _)
PopWhileNotParent_same_level_stays(st, res, level) ==
    IF st # <<>> /\ st[Len(st)].level > level
    THEN LET p == PopStack(st, res)
         IN  PopWhileNotParent_same_level_stays(p.stack, p.result, level)
    ELSE [stack |-> st, result |-> res]

\* while let Some((top_level, _)) = stack.last() { if *top_level >= level { pop } else { break } }
RECURSIVE PopWhileNotParent(_, _, _)
PopWhileNotParent(st, res, level) ==
    IF st # <<>> /\ st[Len(st)].level >= level
    THEN LET p == PopStack(st, res)
         IN  PopWhileNotParent(p.stack, p.result, level)
    ELSE [stack |-> st, result |-> res]

\* while let Some((_, popped)) = stack.pop() { .. }
RECURSIVE FlushStack(_, _)
FlushStack(st, res) ==
    IF st = <<>> THEN res
    ELSE LET p == PopStack(st, res)
         IN  FlushStack(p.stack, p.result)

\* for heading in headings { .. stack.push((heading.level, sym)) }
RECURSIVE HeadingLoop(_, _, _)
HeadingLoop(headings, st, res) ==
    IF headings = <<>> THEN [stack |-> st, result |-> res]
    ELSE LET h == Head(headings)
             p == PopWhileNotParent(st, res, h.level)
         IN  HeadingLoop(Tail(headings),
                         Append(p.stack, [level |-> h.level, sym |-> SectionSymbol(h)]),
                         p.result)

build_hierarchy(headings) ==
    IF headings = <<>> THEN <<>>
    ELSE LET l == HeadingLoop(headings, <<>>, <<>>)
         IN  FlushStack(l.stack, l.result)

\* The headings of a document whose heading levels are levels, in order.
HeadingsOf(levels) == [i \in 1..Len(levels) |-> FlatHeading(levels[i], i)]

LevelLists == UNION { [1..n -> 1..MaxHeadingLevel] : n \in 0..MaxHeadings }

InitMd ==
    /\ \E levels \in LevelLists :
          lastOp = [kind |-> "headings", prev |-> "none", files |-> levels,
                    stats |-> <<>>]
    /\ disk = [f \in RelPaths |-> Absent]
    /\ db = [p \in Paths |-> EmptyDb]
    /\ cfg = [ignore |-> <<>>, max_file_size |-> 2]
    /\ nOps = 0
    /\ InitServer
    /\ InitWatcher
    /\ InitAux

\* MarkdownExtractor::extract on the document.
ExtractMarkdown ==
    /\ lastOp.kind = "headings"
    /\ lastOp' = [kind |-> "build_hierarchy", prev |-> lastOp.kind,
                  files |-> lastOp.files,
                  stats |-> build_hierarchy(HeadingsOf(lastOp.files))]
    /\ UNCHANGED <<disk, db, cfg, nOps, srvVars, wVars, auxVars>>

NextMd == ExtractMarkdown

SpecMd == InitMd /\ [][NextMd]_vars

(***************************************************************************)
(* Claims about the indexer.                                               *)
(***************************************************************************)
FilesOf(d) == { f.rel_path : f \in d.files }

\* C8: a second index run directly after an index run (no file change, no other
\* operation in between) reports every processed file as unchanged:
\* files_unchanged = files_total and files_new = files_changed = files_deleted = 0.
C8_ReindexAllUnchanged ==
    (lastOp.kind = "index" /\ lastOp.prev = "index") =>
        /\ lastOp.stats.files_unchanged = lastOp.stats.files_total
        /\ lastOp.stats.files_new = 0
        /\ lastOp.stats.files_changed = 0
        /\ lastOp.stats.files_deleted = 0

\* A second index run over two indexed files.
C8_Witness ==
    /\ lastOp.kind = "index"
    /\ lastOp.prev = "index"
    /\ lastOp.stats.files_total = 2
    /\ lastOp.stats.files_unchanged = 2

\* The file rows an index run removed, as seen across the step.
RowsGone == { f \in db[RepoPath].files : f.id \notin RowIds(db'[RepoPath].files) }

\* C9 as stated: an index run deletes exactly the file rows whose file has
\* disappeared from disk, with their symbols, and files_deleted counts them.
C9_DeletesExactlyDisappeared ==
    [][ lastOp'.kind = "index" =>
          /\ RowsGone = { f \in db[RepoPath].files : disk[f.rel_path] = Absent }
          /\ lastOp'.stats.files_deleted = Cardinality(RowsGone) ]_vars

\* C9 amended: an index run deletes exactly the file rows whose path its walk no
\* longer accepts (the file is gone from disk, or is on disk but excluded by the
\* size cap, an ignore pattern, an ignored directory or suffix, or has no
\* extractor), each with all its symbols, and files_deleted is their number; a
\* row whose file is gone from disk is among them and leaves no symbol with its
\* file_rel_path.
C9_DeletesExactlyUnwalked ==
    [][ lastOp'.kind = "index" =>
          /\ RowsGone = { f \in db[RepoPath].files :
                            ~WalkAccepts(disk, f.rel_path, cfg.ignore, cfg.max_file_size) }
          /\ lastOp'.stats.files_deleted = Cardinality(RowsGone)
          /\ \A f \in RowsGone :
                \A s \in db'[RepoPath].symbols :
                    s.file_id # f.id /\ s.file_rel_path # f.rel_path
          /\ \A f \in db[RepoPath].files :
                disk[f.rel_path] = Absent =>
                    /\ f \in RowsGone
                    /\ lastOp'.stats.files_deleted >= 1
                    /\ \A s \in db'[RepoPath].symbols : s.file_rel_path # f.rel_path ]_vars

\* An index run right after a file was removed from disk deleted a row.
C9_Witness ==
    /\ lastOp.kind = "index"
    /\ lastOp.prev = "remove"
    /\ lastOp.stats.files_deleted >= 1

\* Whether every listed path is a file on disk whose row holds the hash of its
\* current bytes.
AllIndexedUnchanged(d, dsk, files) ==
    \A i \in 1..Len(files) :
        /\ dsk[files[i]] # Absent
        /\ \E f \in d.files :
              f.rel_path = files[i] /\ f.content_hash = hash_bytes(dsk[files[i]])

\* C10: update_files skips a listed file whose content hash equals the stored
\* one: it rewrites no symbol and reports files_changed = 0.
C10_UpdateFilesSkipsUnchanged ==
    [][ (lastOp'.kind = "update_files"
            /\ AllIndexedUnchanged(db[RepoPath], disk, lastOp'.files)) =>
          /\ lastOp'.stats.files_changed = 0
          /\ db'[RepoPath].symbols = db[RepoPath].symbols ]_vars

\* The symbol row with the given id, if there is one.
SymbolsWithId(d, id) == { s \in d.symbols : s.id = id }

IsThisX(name) ==
    /\ StartsWith(name, <<"t", "h", "i", "s", ".">>)
    /\ Cardinality(Positions(name, ".")) = 1

\* The symbols named X whose parent is the enclosing class of the symbol the
\* reference r comes from.
EnclosingClassMembers(d, r) ==
    { s \in d.symbols :
        /\ s.name = SubSeq(r.to_name, 6, Len(r.to_name))
        /\ s.parent_symbol_id # NullId
        /\ \E f \in SymbolsWithId(d, r.from_symbol_id) :
              s.parent_symbol_id = f.parent_symbol_id }

\* C12: after a run has resolved the references, a reference whose to_name is
\* this.X (exactly one dot) points to a symbol named X whose parent is the
\* enclosing class of the referring symbol when there is one; every other
\* reference (a to_name with more dots included) is resolved by the exact-name
\* match only: to a symbol of that name, or to none when no symbol has it.
C12_ThisDotResolvesInEnclosingClass ==
    lastOp.kind \in { "index", "update_files" } =>
        \A r \in db[RepoPath].refs :
            IF IsThisX(r.to_name) /\ EnclosingClassMembers(db[RepoPath], r) # {}
            THEN r.to_symbol_id \in RowIds(EnclosingClassMembers(db[RepoPath], r))
            ELSE IF \E s \in db[RepoPath].symbols : s.name = r.to_name
                 THEN \E s \in SymbolsWithId(db[RepoPath], r.to_symbol_id) :
                         s.name = r.to_name
                 ELSE r.to_symbol_id = NullId

\* C13: after any sequence of index, update_files and file-deletion
\* operations, every symbol row belongs to an existing file row, and its
\* file_rel_path and repo_id are that file's rel_path and repo_id.
C13_SymbolsBelongToTheirFile ==
    \A s \in db[RepoPath].symbols :
        \E f \in db[RepoPath].files :
            /\ f.id = s.file_id
            /\ f.rel_path = s.file_rel_path
            /\ f.repo_id = s.repo_id

\* An index run deleted the row of a file that had symbols, and symbols of
\* another file are still stored.
C13_Witness ==
    /\ lastOp.kind = "index"
    /\ lastOp.stats.files_deleted >= 1
    /\ db[RepoPath].symbols # {}

(***************************************************************************)
(* Claims about the MCP server and the indexing tracker.                   *)
(***************************************************************************)
RunningOn(p) == { r \in Runners : Running(r) /\ PathOf(r) = p }

\* C1: per repository at most one indexing job runs at any time, whatever its
\* kind (background auto-index task, index_repository run, watcher worker).
C1_AtMostOneIndexingJob == \A p \in Paths : Cardinality(RunningOn(p)) <= 1

\* C2: a background auto-index and an index_repository run never execute at
\* the same time against the same repository's DB.
C2_BackgroundAndExplicitNeverOverlap ==
    \A t \in TaskIds, c \in CallIds :
        ~(/\ Running(BgRunner(t))
          /\ Running(IrRunner(c))
          /\ bg[t].path = ir[c].path)

\* C3: two concurrent index_repository calls on the same path serialize:
\* their index runs do not overlap.
C3_ExplicitCallsSerialize ==
    \A c1 \in CallIds, c2 \in CallIds :
        (c1 # c2 /\ ir[c1].path = ir[c2].path)
            => ~(Running(IrRunner(c1)) /\ Running(IrRunner(c2)))

\* The DB file of the path exists and its repository row has a non-null
\* last_indexed_at.
Indexed(p) ==
    /\ db[p].exists
    /\ \E r \in db[p].repos : r.abs_path = p /\ r.last_indexed_at # NULL

Notices == { "indexing started", "currently being indexed" }

\* C4: at most one background index task exists per path at a time, and a query
\* on a repository that is not indexed, made while the tracker reports active
\* indexing, spawns nothing and returns the "currently being indexed" notice.
C4_AtMostOneBackgroundTask ==
    /\ [](\A p \in Paths : Cardinality({ t \in TaskIds : TaskExists(t) /\ bg[t].path = p }) <= 1)
    /\ [][\A tool \in QueryTools, p \in Paths :
            (QueryTool(tool, p) /\ ~Indexed(p) /\ is_indexing(tracker, p))
                => (resp'.result = "currently being indexed" /\ bg' = bg)]_vars

\* A query has been answered with the notice while a background task exists.
C4_Witness ==
    /\ resp.tool \in QueryTools
    /\ resp.result = "currently being indexed"
    /\ \E t \in TaskIds : TaskExists(t)

\* C5: a query tool returns query results only if the DB file exists and the
\* repository row has a non-null last_indexed_at; otherwise its response is the
\* auto-index notice, which carries no query results and no index stats.
C5_ResultsOnlyWhenIndexed ==
    [][\A tool \in QueryTools, p \in Paths :
        QueryTool(tool, p)
            => /\ resp'.result = "results" => Indexed(p)
               /\ ~Indexed(p) => (resp'.result \in Notices /\ resp'.stats = NoStats)]_vars

\* A query got the notice although the DB file and the repository row exist:
\* last_indexed_at is still null.
C5_Witness ==
    /\ resp.tool \in QueryTools
    /\ resp.result \in Notices
    /\ db[RepoPath].exists
    /\ \E r \in db[RepoPath].repos : r.last_indexed_at = NULL

\* C6 as claimed: every background task that has ended has completed its
\* handle and has told the watcher to watch the repository.
C6_EndsCompletedAndWatching ==
    \A t \in TaskIds : bg[t].pc = "ended" => (bg[t].completed /\ bg[t].watch_sent)

\* C6 amended: whether its run succeeded, failed or panicked, a background task
\* ends with its handle completed (the tracker no longer reports indexing on
\* its channel); it tells the watcher to watch the repository exactly when the
\* run succeeded.
C6_EndsCompletedWatchingOnSuccess ==
    [][\A t \in TaskIds :
        (bg[t].pc \in { "ok", "err", "panic" } /\ bg'[t].pc = "ended")
            => /\ bg'[t].completed
               /\ tracker'.chan[t].value
               /\ bg'[t].watch_sent <=> (bg[t].pc = "ok")
               /\ bg[t].pc = "ok" => bg[t].path \in watching'
               /\ bg[t].pc # "ok" => watching' = watching]_vars

\* A background task whose run did not succeed has ended: handle completed,
\* watcher not told.
C6_Witness ==
    \E t \in TaskIds : bg[t].pc = "ended" /\ bg[t].completed /\ ~bg[t].watch_sent

(***************************************************************************)
(* Claims about the watcher.                                               *)
(***************************************************************************)
\* Filesystem events have stopped and everything they caused has been
\* processed: no event in the channel, nothing pending in the debouncer, no
\* worker left to run.
Quiescent ==
    /\ fsq = <<>>
    /\ debouncer.pending = {}
    /\ workers = <<>>

\* The file rows of the watched repository agree with the working tree.
Fresh ==
    \A f \in WatchedFiles :
        /\ WalkAccepts(disk, f, cfg.ignore, cfg.max_file_size)
            => \E row \in db[RepoPath].files :
                   row.rel_path = f /\ row.content_hash = hash_bytes(disk[f])
        /\ disk[f] = Absent => \A row \in db[RepoPath].files : row.rel_path # f

\* C7: once the filesystem events have stopped and the flushes they caused
\* have been processed, every eligible file on disk has a file row with the
\* hash of its current bytes, and no file row remains for a removed file.
C7_FreshAfterQuiescence == Quiescent => Fresh

\* C29: the workers of successive flushes for the repository write to its DB
\* in flush order: the worker that runs is the one of the earliest flush
\* whose worker has not run yet.
C29_WorkersRunInFlushOrder ==
    [][Len(workers') < Len(workers) => workers' = Tail(workers)]_vars

(***************************************************************************)
(* Claims about the transaction of a run.                                  *)
(***************************************************************************)
\* C14: a repository counts as indexed (its row has a non-null
\* last_indexed_at) only through the commit of a full index run, in the same
\* step that commits the run's index data; a run that fails before its commit
\* and an update_files run never make it count as indexed.
C14_IndexedOnlyByCommittedIndex ==
    [][ (~Indexed(RepoPath) /\ Indexed(RepoPath)') =>
          /\ TxnCommit
          /\ conn.kind = "index"
          /\ Tables(db'[RepoPath]) =
                Tables(IndexFinish(RepoIdOf(db[RepoPath], RepoPath), conn.acc).db) ]_vars

\* An index run failed after an update_files run had committed rows: the
\* repository has a row and files, and does not count as indexed.
C14_Witness ==
    /\ conn.state = "rolled_back"
    /\ conn.kind = "index"
    /\ db[RepoPath].files # {}
    /\ db[RepoPath].repos # {}
    /\ ~Indexed(RepoPath)

\* C15: when an index or update_files run fails after its transaction has
\* begun, the stored files, symbols and references are those from before the
\* run, while the failed connection is still open and after it is dropped.
C15_FailedRunRollsBack ==
    conn.state \in { "failed", "rolled_back" } =>
        Tables(db[RepoPath]) = Tables(conn.before)

\* A run that had changed rows inside its transaction failed and was rolled
\* back over a non-empty index.
C15_Witness ==
    /\ conn.state = "rolled_back"
    /\ conn.before.files # {}
    /\ Tables(conn.acc.db) # Tables(conn.before)

(***************************************************************************)
(* Claims about the start of the server.                                   *)
(***************************************************************************)
\* C16: once start() has returned the watcher handle, and whenever a tool call
\* has been served, the startup index run of every known repository whose
\* directory exists has finished and none is still running.
C16_NoToolCallBeforeStartupIndex ==
    (boot.pc \in { "started", "serving" } \/ boot.served > 0) =>
        /\ boot.running = {}
        /\ \A r \in boot.known \cap boot.dirs : r \in boot.finished

\* A tool call was served after the startup runs of two repositories, one of
\* which was known but had no directory any more.
C16_Witness ==
    /\ boot.served > 0
    /\ Cardinality(boot.finished) >= 2
    /\ boot.known \ boot.dirs # {}

(***************************************************************************)
(* Claims about the IndexingTracker.                                       *)
(***************************************************************************)
\* C17: in any sequence of start_indexing, complete, drop and
\* wait_for_completion calls, start_indexing(path) returns a handle if and only
\* if no handle issued for path before is still outstanding; at most one
\* handle per path is outstanding at any time.
C17_HandleIffNoneOutstanding ==
    /\ [](\A p \in Paths : Cardinality(Outstanding(p)) <= 1)
    /\ [][ \A p \in Paths :
              TrackerStart(p) => (resp'.result = "Some" <=> Outstanding(p) = {}) ]_vars

\* start_indexing returned a handle after an earlier handle was dropped without
\* completion, while a waiter still held a receiver.
C17_Witness ==
    /\ resp.tool = "start_indexing"
    /\ resp.result = "Some"
    /\ \E t \in TaskIds : bg[t].pc = "ended" /\ ~bg[t].completed
    /\ \E t \in TaskIds : bg[t].pc = "held"

\* The handle of the channel a waiter listens to has been completed or dropped.
WaitsOnEndedJob(c) ==
    /\ ir[c].pc = "waiting"
    /\ IF ir[c].rx = NoTask THEN TRUE ELSE bg[ir[c].rx].pc = "ended"

\* C18: a waiter that took a receiver from wait_for_completion and loops until
\* done leaves its loop once the handle has been completed or dropped without
\* completion; it never waits forever on a job that has ended.
C18_WaiterTerminates ==
    \A c \in CallIds : WaitsOnEndedJob(c) ~> (ir[c].pc # "waiting")

\* A waiter is in its loop on a channel whose handle was dropped without
\* completion.
C18_Witness ==
    \E c \in CallIds :
        /\ ir[c].pc = "waiting"
        /\ ir[c].rx # NoTask
        /\ IF ir[c].rx = NoTask THEN FALSE
           ELSE bg[ir[c].rx].pc = "ended" /\ ~bg[ir[c].rx].completed

(***************************************************************************)
(* Claims about the Debouncer.                                             *)
(***************************************************************************)
\* The (repo, file) pairs of a list of record calls, and of a set of changes.
KeysOfLog(log) == { <<log[i].repo_path, log[i].rel_path>> : i \in 1..Len(log) }
KeysOf(changes) == { <<e.repo_path, e.rel_path>> : e \in changes }

\* The kind of the last record call of the list for a (repo, file) pair.
LastKind(log, key) ==
    log[SetMax({ i \in 1..Len(log) : <<log[i].repo_path, log[i].rel_path>> = key })].kind

OneEntryPerFileWithLastKind(changes, log) ==
    /\ KeysOf(changes) = KeysOfLog(log)
    /\ Cardinality(changes) = Cardinality(KeysOfLog(log))
    /\ \A e \in changes : e.kind = LastKind(log, <<e.repo_path, e.rel_path>>)

\* C20: record keeps one pending entry per (repo, file); when several events
\* of a file are recorded before a flush, the pending and the flushed kind
\* are those of the last one, and the entries of other files and repos are as
\* their own last record call left them.
C20_LastRecordedKindWins ==
    /\ OneEntryPerFileWithLastKind(debouncer.pending, dlog.log)
    /\ OneEntryPerFileWithLastKind(dlog.batch, dlog.batch_log)

\* A flushed batch in which a file recorded as Modified and then Deleted is
\* Deleted, and the same file of another repository, recorded as Deleted and
\* then Modified, is Modified.
C20_Witness ==
    /\ Len(dlog.batch_log) = 4
    /\ \E e \in dlog.batch :
          /\ e.kind = "Deleted"
          /\ \E i \in 1..Len(dlog.batch_log) :
                /\ dlog.batch_log[i].kind = "Modified"
                /\ dlog.batch_log[i].repo_path = e.repo_path
                /\ dlog.batch_log[i].rel_path = e.rel_path
    /\ \E e \in dlog.batch :
          /\ e.kind = "Modified"
          /\ \E i \in 1..Len(dlog.batch_log) :
                /\ dlog.batch_log[i].kind = "Deleted"
                /\ dlog.batch_log[i].repo_path = e.repo_path
                /\ dlog.batch_log[i].rel_path = e.rel_path

\* The time since the most recent record call.
SinceLastRecord == clock - dlog.last_at

\* C21: time_until_flush() is None exactly when nothing is pending, and
\* otherwise max(0, DEBOUNCE_DELAY - time since the most recent record);
\* is_ready() is true exactly when something is pending and the delay has
\* passed since the most recent record; right after a record the full delay
\* is left and the debouncer is not ready.
C21_TimeUntilFlushAndReady ==
    /\ [](/\ (time_until_flush(debouncer, clock) = NoDuration) <=> (debouncer.pending = {})
          /\ debouncer.pending # {} =>
                time_until_flush(debouncer, clock) =
                    (IF DEBOUNCE_DELAY - SinceLastRecord > 0
                     THEN DEBOUNCE_DELAY - SinceLastRecord ELSE 0)
          /\ is_ready(debouncer, clock) <=>
                (debouncer.pending # {} /\ SinceLastRecord >= DEBOUNCE_DELAY))
    /\ [][(\E rf \in DebFiles, k \in ChangeKinds : DebRecord(rf[1], rf[2], k)) =>
              /\ time_until_flush(debouncer', clock') = DEBOUNCE_DELAY
              /\ ~is_ready(debouncer', clock')]_vars

\* Changes recorded at two different times are pending for longer than the
\* delay since the later record: the wait is clamped at zero.
C21_Witness ==
    /\ Len(dlog.log) >= 2
    /\ dlog.last_at > 0
    /\ debouncer.pending # {}
    /\ SinceLastRecord > DEBOUNCE_DELAY
    /\ time_until_flush(debouncer, clock) = 0

(***************************************************************************)
(* Claims about the watcher's event loop.                                   *)
(***************************************************************************)
\* A step of the event loop that flushes the debouncer.
FlushStep == debouncer.pending # {} /\ debouncer'.pending = {}

\* C22: in the running event loop, recorded changes are eventually flushed
\* (events stop arriving after finitely many), the flush hands the batch of a
\* watched repository to a worker, and no flush happens earlier than
\* DEBOUNCE_DELAY after the most recent recorded event.
C22_FlushedAfterQuietDelay ==
    /\ (loop.alive /\ debouncer.pending # {}) ~> (debouncer.pending = {} \/ ~loop.alive)
    /\ [][FlushStep =>
            /\ clock - debouncer.last_event_at >= DEBOUNCE_DELAY
            /\ RepoPath \in watchers => Len(workers') = Len(workers) + 1]_vars

\* A flush has handed a batch to a worker after an event restarted the timer.
C22_Witness ==
    /\ loop.alive
    /\ workers # <<>>
    /\ debouncer.pending = {}
    /\ clock > DEBOUNCE_DELAY

\* C23 as claimed: once the loop has handled Shutdown, every command that was
\* queued has been processed and no OS watcher remains.
C23_ShutdownDrainsCommands ==
    ~loop.alive => (loop.cmdq = <<>> /\ loop.os = {} /\ watchers = {})

\* C23, amended: handling Shutdown ends the event loop at once; no OS watcher
\* and no entry of the watchers map remains, and the commands queued behind
\* the Shutdown are never processed.
C23_ShutdownStopsLoopAndDropsWatchers ==
    /\ [](~loop.alive => (loop.os = {} /\ watchers = {}))
    /\ [][(loop.alive /\ ~loop'.alive) => loop'.cmdq = Tail(loop.cmdq)]_vars
    /\ [][~loop.alive => UNCHANGED <<loop, watchers>>]_vars

\* The loop has ended with a command left in its channel.
C23_Witness ==
    /\ ~loop.alive
    /\ loop.cmdq # <<>>
    /\ loop.os = {}

\* The command the event loop handles in this step.
HandlesCmd(kind) ==
    /\ loop.alive
    /\ loop.cmdq # <<>>
    /\ Head(loop.cmdq).kind = kind
    /\ loop'.cmdq = Tail(loop.cmdq)

\* C24: the loop holds at most one OS watcher per repository, the OS watchers
\* being exactly those of the entries of its map; handling Watch for a
\* watched repository changes neither; handling Unwatch removes the
\* repository's watcher and entry; a flush at a time when the repository is
\* not watched hands no job to a worker.
C24_OneWatcherPerRepository ==
    /\ [](/\ \A p \in Paths : Cardinality({ x \in loop.os : x.repo_path = p }) <= 1
          /\ { x.repo_path : x \in loop.os } = watchers)
    /\ [][(HandlesCmd("Watch") /\ Head(loop.cmdq).repo_path \in watchers) =>
              (watchers' = watchers /\ loop'.os = loop.os)]_vars
    /\ [][HandlesCmd("Unwatch") =>
              /\ Head(loop.cmdq).repo_path \notin watchers'
              /\ \A x \in loop'.os : x.repo_path # Head(loop.cmdq).repo_path]_vars
    /\ [][(FlushStep /\ RepoPath \notin watchers) => workers' = workers]_vars

\* The repository was unwatched with changes pending, they were flushed to no
\* worker, and a later Watch made a new watcher for it.
C24_Witness ==
    /\ loop.created >= 2
    /\ RepoPath \in watchers
    /\ debouncer.pending = {}
    /\ debouncer.last_event_at = NoInstant
    /\ clock >= DEBOUNCE_DELAY
    /\ workers = <<>>
    /\ db[RepoPath].exists

\* C27: no filesystem event that passed the filters of the callback is lost
\* on its way to the event loop: every try_send of the callback succeeds.
C27_NoFsEventLost == loop.lost = 0

\* C30: once delete_repos has reported the repository deleted (and no index
\* run has succeeded since), its index DB does not come back: no flush
\* worker of the watcher opens the storage of that path again.
C30_DeletedIndexNotRecreated ==
    loop.deleted => ~db[RepoPath].exists

(***************************************************************************)
(* Claims about the Markdown extractor.                                     *)
(***************************************************************************)
\* The symbols of a list of trees in pre-order, each with the line of its
\* parent (0 for a root).
RECURSIVE PreOrder(_, _)
PreOrder(syms, parent) ==
    IF syms = <<>> THEN <<>>
    ELSE << [line |-> Head(syms).start_line, parent |-> parent] >>
         \o PreOrder(Head(syms).children, Head(syms).start_line)
         \o PreOrder(Tail(syms), parent)

\* The nearest preceding heading of strictly smaller level (0 when none).
NearestSmaller(levels, i) ==
    LET C == { j \in 1..(i - 1) : levels[j] < levels[i] }
    IN  IF C = {} THEN 0 ELSE SetMax(C)

\* C25: the extractor outputs each heading exactly once, the trees read in
\* pre-order give the headings in document order (so siblings are in
\* document order), and the parent of a heading is the nearest preceding
\* heading of strictly smaller level, or none: it is a root.
C25_HeadingHierarchy ==
    lastOp.kind = "build_hierarchy" =>
        LET levels == lastOp.files
            out == PreOrder(lastOp.stats, 0)
        IN  /\ Len(out) = Len(levels)
            /\ \A i \in 1..Len(levels) :
                  /\ out[i].line = i
                  /\ out[i].parent = NearestSmaller(levels, i)

\* A document with one root whose last heading closes a level and is the
\* child of a heading that is not the one right before it.
C25_Witness ==
    /\ lastOp.kind = "build_hierarchy"
    /\ Len(lastOp.files) = 4
    /\ Len(lastOp.stats) = 1
    /\ NearestSmaller(lastOp.files, 4) = 1
    /\ NearestSmaller(lastOp.files, 3) = 2
    /\ Len(lastOp.stats[1].children) = 2

(***************************************************************************)
(* Claims about a dropped tracker handle and about path strings.            *)
(***************************************************************************)
\* A background task holds the tracker handle of path p.
TaskHoldsHandle(p) == \E t \in TaskIds : TaskExists(t) /\ bg[t].path = p

\* C26: a repository is reported as being indexed only while a task holds
\* its handle (a handle dropped without complete() ends the report), and a
\* query on an unindexed repository whose handle nobody holds starts a new
\* background index instead of answering "currently being indexed".
C26_DroppedHandleEndsIndexing ==
    /\ [](\A p \in Paths : is_indexing(tracker, p) => TaskHoldsHandle(p))
    /\ [][\A tool \in QueryTools, p \in Paths :
            (QueryTool(tool, p) /\ ~Indexed(p) /\ ~TaskHoldsHandle(p)) =>
                resp'.result = "indexing started"]_vars

\* A background auto-index of path p has completed successfully.
BackgroundIndexSucceeded(p) ==
    \E t \in TaskIds : bg[t].pc = "ended" /\ bg[t].path = p /\ bg[t].watch_sent

\* C28: once a background auto-index of a path has completed successfully, a
\* query on the same path string is served from the index, whether or not
\* the string is in canonical form.
C28_ServedAfterBackgroundIndex ==
    [][\A tool \in QueryTools, p \in Paths :
          (QueryTool(tool, p) /\ BackgroundIndexSucceeded(p)) =>
              resp'.result = "results"]_vars

====
